---- MODULE Spec2Model ----
(***************************************************************************)
(* Collision bookkeeping and contact-event synthesis of the rigid-body     *)
(* system: PhysicsProvider (persistent/transient collision maps, pooled    *)
(* contact records), AmmoProvider (detection pass, stepping, gravity,     *)
(* raycasts), the RigidBodyComponentSystem frame loop and library          *)
(* loading, and the SingleContactResult constructor.                       *)
(*                                                                         *)
(* Entities are the integers 1..n; 0 stands for "no entity" (null or       *)
(* undefined).  A vector is abstracted to one integer token, 0 being the   *)
(* zero vector.                                                            *)
(***************************************************************************)
EXTENDS Integers, Sequences, FiniteSets, TLC

\* ------------------------------------------------------------------ bounds
NumEntities == 2        \* entities of the frame-loop specification
MapEntities == 3        \* entities of the bookkeeping specification
MaxManifolds == 2       \* manifolds the dispatcher reports in one pass
MaxContacts == 2        \* contact points of one manifold
MaxFrameOthers == 2     \* entries of a transient map in the bookkeeping specification
MaxSubSteps == 2        \* sub-steps one stepSimulation call runs
MaxHits == 3            \* hits the world reports for one ray
MaxProviders == 2        \* providers createInstance makes in one page
MaxVectors == 13        \* Vec3 objects on the heap

NoEntity == 0
Undefined == -1

\* ------------------------------------------------------------------ state
VARIABLES
    ents,                    \* entity -> [collision, rigidbody, trigger] component presence
    listeners,               \* entity -> [collision, rigidbody] -> set of event names listened to
    globalContact,           \* the system has a 'contact' listener
    collisions,              \* persistent map, in key insertion order: <<[guid, others]>>
    frameCollisions,         \* transient map of the current pass, same shape
    contactPointPool,        \* [items, count]
    contactResultPool,
    singleContactResultPool,
    events,                  \* events fired by the last operation, in order
    storeCalls,              \* _storeCollision calls of the last operation: [entity, other, ret]
    removals,                \* pairs spliced by the last _cleanOldCollisions: [entity, other]
    freeCalls,               \* freeAll calls of the last pass: [pool, at, outstanding]
    handed,                  \* pooled records handed out by the create functions in the last pass
    manifolds,               \* the manifolds of the last pass
    open,                    \* before the last operation: the pairs stored (true returned) and not
                             \* removed since
    prev,                    \* the pass before the last one: its contact pairs, enter events and
                             \* the persistent pairs it left
    hasTickCallback,         \* dynamicsWorld.setInternalTickCallback exists
    tickRegistered,          \* init() registered _checkForCollisions as the internal tick callback
    pc,                      \* "idle", or "step" while stepSimulation runs inside onUpdate
    subStepsLeft,            \* sub-steps stepSimulation still has to run
    frame,                   \* the current onUpdate call: sub-steps, passes, freeAll calls, error
    lastOp,                  \* the operation that led to this state
    error,                   \* the exception the last provider operation ended with, or "none"
    system,                  \* the component system: Ammo defined, onLibraryLoaded has run,
                             \* _provider set, onUpdate subscribed to 'update'
    gravity,                 \* system.gravity, a vector of doubles
    world,                   \* dynamicsWorld's gravity and what the last setGravity call did
    ray,                     \* the last raycast query: the hits the world reports, the
                             \* options, and what the call returned
    made,                    \* the last record a contact.js constructor built, and the heap
    handler,                 \* the one listener that changes entities when it is called: the
                             \* event it is registered for and the component it removes
    scratch                  \* the module-level scratch objects of ammo-provider.js, the
                             \* providers created so far and those not destroyed

bookVars == <<collisions, frameCollisions, events, storeCalls, removals, open, error>>
poolVars == <<contactPointPool, contactResultPool, singleContactResultPool, freeCalls, handed>>
entVars == <<ents, listeners, globalContact, handler, scratch>>
passVars == <<manifolds, prev>>
loopVars == <<hasTickCallback, tickRegistered, pc, subStepsLeft, frame>>
queryVars == <<ray, made>>
sideVars == <<system, gravity, world, ray, made>>
vars == <<ents, listeners, globalContact, collisions, frameCollisions, contactPointPool,
          contactResultPool, singleContactResultPool, events, storeCalls, removals, freeCalls,
          handed, manifolds, open, prev, hasTickCallback, tickRegistered, pc, subStepsLeft, frame,
          lastOp, error, system, gravity, world, ray, made, handler, scratch>>

\* ------------------------------------------------------------------ helpers
Range(s) == {s[i] : i \in 1..Len(s)}

Contains(s, x) == \E i \in 1..Len(s) : s[i] = x

\* Array.prototype.indexOf, 1-based; 0 when absent.
IndexOf(s, x) ==
    IF Contains(s, x) THEN CHOOSE i \in 1..Len(s) : s[i] = x /\ \A j \in 1..(i - 1) : s[j] # x
    ELSE 0

\* Array.prototype.splice(i, 1)
Splice(s, i) == [j \in 1..(Len(s) - 1) |-> IF j < i THEN s[j] ELSE s[j + 1]]

\* position of the record keyed guid in a map kept in insertion order; 0 when absent
KeyIndex(map, guid) ==
    IF \E i \in 1..Len(map) : map[i].guid = guid
    THEN CHOOSE i \in 1..Len(map) : map[i].guid = guid
    ELSE 0

HasKey(map, guid) == KeyIndex(map, guid) # 0

OthersOf(map, guid) == IF HasKey(map, guid) THEN map[KeyIndex(map, guid)].others ELSE << >>

\* the (owner, other) pairs a map lists
PairsOf(map) ==
    UNION {{<<map[i].guid, map[i].others[j]>> : j \in 1..Len(map[i].others)} : i \in 1..Len(map)}

\* the number of others-list entries of a map
EntryCount(map) ==
    Cardinality(UNION {{<<i, j>> : j \in 1..Len(map[i].others)} : i \in 1..Len(map)})

Max(a, b) == IF a >= b THEN a ELSE b

\* ------------------------------------------------------------------ records
\* A backend contact point (btManifoldPoint); its six readings are distinct tokens.
BtPoint(seed) ==
    [localPointA |-> 10 * seed + 1, localPointB |-> 10 * seed + 2,
     positionWorldOnA |-> 10 * seed + 3, positionWorldOnB |-> 10 * seed + 4,
     normalWorldOnB |-> 10 * seed + 5, appliedImpulse |-> 10 * seed + 6]

\* new ContactPoint(): five zero vectors, impulse 0
ContactPointDefault ==
    [localPoint |-> 0, localPointOther |-> 0, point |-> 0, pointOther |-> 0,
     normal |-> 0, impulse |-> 0]

\* new ContactResult(): both fields undefined (<<Undefined>> stands for no array)
ContactResultDefault == [other |-> Undefined, contacts |-> <<Undefined>>]

\* new SingleContactResult(): null entities, impulse 0, zero vectors
SingleContactResultDefault ==
    [a |-> NoEntity, b |-> NoEntity, impulse |-> 0, localPointA |-> 0, localPointB |-> 0,
     pointA |-> 0, pointB |-> 0, normal |-> 0]

\* ------------------------------------------------------------------ object pool
\* new ObjectPool(ctor, size): size default-constructed records, none in use
ObjectPoolNew(default, size) == [items |-> [i \in 1..size |-> default], count |-> 0]

\* allocate(): grows the store (doubling, at least one) when every record is in use, then
\* hands out the next record as it is; the record handed out is items[count] afterwards.
PoolAllocate(pool, default) ==
    LET n == Len(pool.items)
        grown == IF pool.count >= n
                 THEN pool.items \o [i \in 1..(Max(1, 2 * n) - n) |-> default]
                 ELSE pool.items
    IN  [items |-> grown, count |-> pool.count + 1]

\* freeAll(): clears the occupancy, keeps the storage and its contents
PoolFreeAll(pool) == [pool EXCEPT !.count = 0]

\* ------------------------------------------------------------------ listeners
HasEvent(st, e, comp, name) == name \in st.listeners[e][comp]

\* entity.collision / entity.rigidbody is there
Present(st, e, comp) == st.ents[e][comp]

\* no listener changes entities
NoHandler ==
    [on |-> NoEntity, comp |-> "none", name |-> "none", entity |-> NoEntity, removes |-> "none"]

\* the handlers of event name run on component comp of entity e: the one that changes
\* entities, if it is registered there, removes its component (entity.removeComponent)
RunHandler(st, e, comp, name) ==
    IF st.handler.on = e /\ st.handler.comp = comp /\ st.handler.name = name
    THEN [st EXCEPT !.ents[st.handler.entity][st.handler.removes] = FALSE]
    ELSE st

\* component.fire(name, arg): journals the event; firing on an absent component is a
\* TypeError that ends the operation.
Fire(st, e, comp, name, other, pts) ==
    IF st.err # "none" THEN st
    ELSE IF ~Present(st, e, comp) THEN [st EXCEPT !.err = "TypeError"]
    ELSE RunHandler([st EXCEPT !.events = Append(@, [comp |-> comp, name |-> name, a |-> e,
                                                      b |-> other, pts |-> pts,
                                                      present |-> TRUE])],
                    e, comp, name)

\* fire through a component reference read earlier (no lookup on the entity now)
FireCaptured(st, e, comp, name, other) ==
    IF st.err # "none" THEN st
    ELSE RunHandler([st EXCEPT !.events = Append(@, [comp |-> comp, name |-> name, a |-> e,
                                                      b |-> other, pts |-> << >>,
                                                      present |-> Present(st, e, comp)])],
                    e, comp, name)

\* system.fire('contact', result)
FireGlobal(st, result) ==
    IF st.err # "none" THEN st
    ELSE [st EXCEPT !.events = Append(@, [comp |-> "system", name |-> "contact",
            a |-> result.a, b |-> result.b,
            pts |-> <<[localPoint |-> result.localPointA, localPointOther |-> result.localPointB,
                       point |-> result.pointA, pointOther |-> result.pointB,
                       normal |-> result.normal, impulse |-> result.impulse]>>,
            present |-> TRUE])]

\* ------------------------------------------------------------------ PhysicsProvider
\* the pool named field after record r was handed out of the allocation p; the record and
\* the arguments of its writer are journalled
HandOut(st, field, p, r, kind, from) ==
    [st EXCEPT ![field] = [p EXCEPT !.items[p.count] = r],
               !.handed = Append(@, [kind |-> kind, value |-> r, from |-> from])]

\* the assignments of _createSingleContactResult with the two entities exchanged
SingleContactResultFieldsSwapped(old, a, b, cp) ==
    [old EXCEPT !.a = b, !.b = a,
                !.localPointA = cp.localPoint, !.localPointB = cp.localPointOther,
                !.pointA = cp.point, !.pointB = cp.pointOther,
                !.normal = cp.normal, !.impulse = cp.impulse]

\* _createSingleContactResult, lines 36-43: the eight assignments to the allocated record
SingleContactResultFields(old, a, b, cp) ==
    [old EXCEPT !.a = a, !.b = b,
                !.localPointA = cp.localPoint, !.localPointB = cp.localPointOther,
                !.pointA = cp.point, !.pointB = cp.pointOther,
                !.normal = cp.normal, !.impulse = cp.impulse]

CreateSingleContactResultIn(st, p, a, b, cp) ==
    HandOut(st, "scr", p, SingleContactResultFields(p.items[p.count], a, b, cp), "single",
            [a |-> a, b |-> b, cp |-> cp])

\* _createSingleContactResult(a, b, contactPoint); the record is scr.items[scr.count]
CreateSingleContactResult(st, a, b, cpIdx) ==
    CreateSingleContactResultIn(st, PoolAllocate(st.scr, SingleContactResultDefault), a, b,
                                st.cp.items[cpIdx])

CreateContactResultIn(st, p, other, contacts) ==
    HandOut(st, "cr", p, [p.items[p.count] EXCEPT !.other = other, !.contacts = contacts],
            "result", [other |-> other, contacts |-> contacts])

\* _createContactResult(other, contacts); the record is cr.items[cr.count]
CreateContactResult(st, other, contacts) ==
    CreateContactResultIn(st, PoolAllocate(st.cr, ContactResultDefault), other, contacts)

\* _hasContactEvent(entity)
HasContactEvent(st, e) ==
    \/ /\ Present(st, e, "collision")
       /\ \/ HasEvent(st, e, "collision", "collisionstart")
          \/ HasEvent(st, e, "collision", "collisionend")
          \/ HasEvent(st, e, "collision", "contact")
    \/ /\ Present(st, e, "rigidbody")
       /\ \/ HasEvent(st, e, "rigidbody", "collisionstart")
          \/ HasEvent(st, e, "rigidbody", "collisionend")
          \/ HasEvent(st, e, "rigidbody", "contact")

\* map[guid] = map[guid] || { others: [], entity }
EnsureRecord(map, guid) ==
    IF HasKey(map, guid) THEN map ELSE Append(map, [guid |-> guid, others |-> << >>])

\* map[guid] = map[guid] || { others: [], entity }; then others.push(other)
PushOther(map, guid, other) ==
    IF HasKey(map, guid)
    THEN [map EXCEPT ![KeyIndex(map, guid)].others = Append(@, other)]
    ELSE Append(map, [guid |-> guid, others |-> <<other>>])

\* _storeCollision, lines 91-101, once the novelty test has given isNewCollision
StoreCollisionAs(st, entity, other, isNewCollision) ==
    [st EXCEPT
        !.collisions = IF isNewCollision THEN PushOther(@, entity, other)
                       ELSE EnsureRecord(@, entity),
        !.frameCollisions = PushOther(@, entity, other),
        !.storeCalls = Append(@, [entity |-> entity, other |-> other, ret |-> isNewCollision]),
        !.nc = isNewCollision]

\* _storeCollision that pushes without the indexOf test
StoreCollisionNoTest(st, entity, other) == StoreCollisionAs(st, entity, other, TRUE)

\* _storeCollision with the novelty test made against the transient map
StoreCollisionFrameTest(st, entity, other) ==
    StoreCollisionAs(st, entity, other, IndexOf(OthersOf(st.frameCollisions, entity), other) = 0)

\* _storeCollision(entity, other); the return value is left in st.nc
StoreCollision(st, entity, other) ==
    StoreCollisionAs(st, entity, other, IndexOf(OthersOf(st.collisions, entity), other) = 0)

\* lines 130-132: triggerleave on the owner's collision component, if it was captured
TriggerLeaveOwner(st, entity, other, entityCollision) ==
    IF entityCollision THEN FireCaptured(st, entity, "collision", "triggerleave", other) ELSE st

\* lines 133-135: triggerleave on the other entity's rigidbody, if it has one
TriggerLeaveOther(st, entity, other) ==
    IF Present(st, other, "rigidbody")
    THEN Fire(st, other, "rigidbody", "triggerleave", entity, << >>)
    ELSE st

\* lines 138-143: collisionend on a captured component of the owner
CollisionEndOn(st, entity, other, comp, captured) ==
    IF captured THEN FireCaptured(st, entity, comp, "collisionend", other) ELSE st

\* the exit notifications without the triggerleave of the other entity's rigidbody
ExitNotificationsOwnerOnly(st, entity, other, entityCollision, entityRigidbody) ==
    IF st.ents[entity].trigger
    THEN TriggerLeaveOwner(st, entity, other, entityCollision)
    ELSE IF ~st.ents[other].trigger
    THEN CollisionEndOn(CollisionEndOn(st, entity, other, "rigidbody", entityRigidbody),
                        entity, other, "collision", entityCollision)
    ELSE st

\* the exit notifications with a plain else: collisionend whatever the other entity is
ExitNotificationsPlainElse(st, entity, other, entityCollision, entityRigidbody) ==
    IF st.ents[entity].trigger
    THEN TriggerLeaveOther(TriggerLeaveOwner(st, entity, other, entityCollision), entity, other)
    ELSE CollisionEndOn(CollisionEndOn(st, entity, other, "rigidbody", entityRigidbody),
                        entity, other, "collision", entityCollision)

\* _cleanOldCollisions, lines 128-144: the exit notifications of one removed pair.
\* entityCollision and entityRigidbody are the component references read at lines 116-117.
ExitNotifications(st, entity, other, entityCollision, entityRigidbody) ==
    IF st.ents[entity].trigger
    THEN TriggerLeaveOther(TriggerLeaveOwner(st, entity, other, entityCollision), entity, other)
    ELSE IF ~st.ents[other].trigger
    THEN CollisionEndOn(CollisionEndOn(st, entity, other, "rigidbody", entityRigidbody),
                        entity, other, "collision", entityCollision)
    ELSE st

\* line 126: others.splice(i, 1), journalled
RemoveOther(st, guid, i) ==
    [st EXCEPT !.collisions[KeyIndex(st.collisions, guid)].others = Splice(@, i),
               !.removals = Append(@, [entity |-> guid,
                                       other |-> OthersOf(st.collisions, guid)[i]])]

\* the test of line 124 with the record required to be in the transient map
EndedListedOnly(frameCollision, other) ==
    frameCollision # << >> /\ IndexOf(frameCollision[1].others, other) = 0

\* line 124: !frameCollision || frameCollision.others.indexOf(other) < 0
Ended(frameCollision, other) ==
    frameCollision = << >> \/ IndexOf(frameCollision[1].others, other) = 0

\* _cleanOldCollisions, lines 121-146: the while (i--) loop over one record's others;
\* i is the 1-based position about to be visited.
RECURSIVE CleanOthers(_, _, _, _, _, _)
CleanOthers(st, guid, frameCollision, entityCollision, entityRigidbody, i) ==
    IF i = 0 \/ st.err # "none" THEN st
    ELSE IF Ended(frameCollision, OthersOf(st.collisions, guid)[i])
    THEN CleanOthers(ExitNotifications(RemoveOther(st, guid, i), guid,
                                       OthersOf(st.collisions, guid)[i],
                                       entityCollision, entityRigidbody),
                     guid, frameCollision, entityCollision, entityRigidbody, i - 1)
    ELSE CleanOthers(st, guid, frameCollision, entityCollision, entityRigidbody, i - 1)

\* line 113: this.frameCollisions[guid], << >> when undefined
FrameRecord(st, guid) ==
    IF HasKey(st.frameCollisions, guid)
    THEN <<st.frameCollisions[KeyIndex(st.frameCollisions, guid)]>>
    ELSE << >>

\* a cleaning pass that leaves emptied records in the map
DeleteNever(st, guid) == st

\* lines 148-150: delete this.collisions[guid] when its others list is empty
DeleteIfEmpty(st, guid) ==
    IF st.err = "none" /\ Len(OthersOf(st.collisions, guid)) = 0
    THEN [st EXCEPT !.collisions = Splice(@, KeyIndex(st.collisions, guid))]
    ELSE st

\* _cleanOldCollisions, lines 112-151: one key of the persistent map
CleanRecord(st, guid) ==
    DeleteIfEmpty(CleanOthers(st, guid, FrameRecord(st, guid), Present(st, guid, "collision"),
                              Present(st, guid, "rigidbody"),
                              Len(OthersOf(st.collisions, guid))),
                  guid)

\* _cleanOldCollisions: for (const guid in this.collisions), keys in insertion order
RECURSIVE CleanKeys(_, _)
CleanKeys(st, keys) ==
    IF keys = << >> \/ st.err # "none" THEN st
    ELSE CleanKeys(CleanRecord(st, Head(keys)), Tail(keys))

CleanOldCollisions(st) ==
    CleanKeys(st, [i \in 1..Len(st.collisions) |-> st.collisions[i].guid])

\* ------------------------------------------------------------------ AmmoProvider
\* _createContactPointFromAmmo, lines 190-195: the six writes into the allocated record
ContactPointFields(old, bt) ==
    [old EXCEPT !.localPoint = bt.localPointA, !.localPointOther = bt.localPointB,
                !.point = bt.positionWorldOnA, !.pointOther = bt.positionWorldOnB,
                !.normal = bt.normalWorldOnB, !.impulse = bt.appliedImpulse]

\* the writes of _createContactPointFromAmmo made on the reverse record
ReverseContactPointFieldsUnswapped(old, bt) ==
    [old EXCEPT !.localPoint = bt.localPointA, !.localPointOther = bt.localPointB,
                !.point = bt.positionWorldOnA, !.pointOther = bt.positionWorldOnB,
                !.normal = bt.normalWorldOnB, !.impulse = bt.appliedImpulse]

\* the writes of _createReverseContactPointFromAmmo without the one of impulse
ReverseContactPointFieldsNoImpulse(old, bt) ==
    [old EXCEPT !.localPointOther = bt.localPointA, !.localPoint = bt.localPointB,
                !.pointOther = bt.positionWorldOnA, !.point = bt.positionWorldOnB,
                !.normal = bt.normalWorldOnB]

\* _createReverseContactPointFromAmmo, lines 207-212: the six writes, A and B exchanged
ReverseContactPointFields(old, bt) ==
    [old EXCEPT !.localPointOther = bt.localPointA, !.localPoint = bt.localPointB,
                !.pointOther = bt.positionWorldOnA, !.point = bt.positionWorldOnB,
                !.normal = bt.normalWorldOnB, !.impulse = bt.appliedImpulse]

CreateContactPointIn(st, p, bt) ==
    HandOut(st, "cp", p, ContactPointFields(p.items[p.count], bt), "point", [bt |-> bt])

\* _createContactPointFromAmmo(contactPoint); the record is cp.items[cp.count]
CreateContactPointFromAmmo(st, bt) ==
    CreateContactPointIn(st, PoolAllocate(st.cp, ContactPointDefault), bt)

CreateReverseContactPointIn(st, p, bt) ==
    HandOut(st, "cp", p, ReverseContactPointFields(p.items[p.count], bt), "reverse",
            [bt |-> bt])

\* _createReverseContactPointFromAmmo(contactPoint)
CreateReverseContactPointFromAmmo(st, bt) ==
    CreateReverseContactPointIn(st, PoolAllocate(st.cp, ContactPointDefault), bt)

\* wb.getCollisionFlags() & BODYFLAG_NORESPONSE_OBJECT: set on the body of a trigger volume
NoResponse(st, e) == st.ents[e].trigger

\* component.fire(name, contactResult) with the pooled ContactResult cr.items[crIdx]:
\* the handler reads result.other and result.contacts[i] as they are now
FireResult(st, e, comp, name, crIdx) ==
    Fire(st, e, comp, name, st.cr.items[crIdx].other,
         [i \in 1..Len(st.cr.items[crIdx].contacts) |->
             st.cp.items[st.cr.items[crIdx].contacts[i]]])

\* lines 263-266: the component is there and has a triggerenter or triggerleave listener
TriggerEvents(st, e, comp) ==
    Present(st, e, comp) /\
        (HasEvent(st, e, comp, "triggerenter") \/ HasEvent(st, e, comp, "triggerleave"))

\* if (newCollision && cond) component.fire('triggerenter', other)
EnterIf(st, cond, e, comp, other) ==
    IF st.nc /\ cond THEN Fire(st, e, comp, "triggerenter", other, << >>) ELSE st

\* the collision component of e, when it listens, without the test of the other body's
\* no-response flag
VolumeEnterUnflagged(st, listens, otherNoResponse, e, other) ==
    IF st.err = "none" /\ listens
    THEN EnterIf(StoreCollision(st, e, other), TRUE, e, "collision", other)
    ELSE st

\* lines 269-274 and 276-281: the collision component of e, when it listens
VolumeEnter(st, listens, otherNoResponse, e, other) ==
    IF st.err = "none" /\ listens
    THEN EnterIf(StoreCollision(st, e, other), ~otherNoResponse, e, "collision", other)
    ELSE st

\* if (!newCollision) newCollision = this._storeCollision(entity, other)
StoreUnlessNew(st, entity, other) ==
    IF ~st.nc THEN StoreCollision(st, entity, other) ELSE st

\* the rigidbody component of e, when it listens, with the pair stored under e itself
BodyEnterOwnOwner(st, listens, e, other) ==
    IF st.err = "none" /\ listens
    THEN EnterIf(StoreUnlessNew(st, e, other), TRUE, e, "rigidbody", other)
    ELSE st

\* lines 284-292 and 294-302: the rigidbody component of e, when it listens; the pair is
\* stored under the other entity, and only when newCollision is not already true
BodyEnter(st, listens, e, other) ==
    IF st.err = "none" /\ listens
    THEN EnterIf(StoreUnlessNew(st, other, e), TRUE, e, "rigidbody", other)
    ELSE st

TriggerSteps(st, e0, e1, e0Events, e1Events, e0BodyEvents, e1BodyEvents, flags0, flags1) ==
    BodyEnter(BodyEnter(VolumeEnter(VolumeEnter(st, e0Events, flags1, e0, e1),
                                    e1Events, flags0, e1, e0),
                        e0BodyEvents, e0, e1),
              e1BodyEvents, e1, e0)

\* _checkForCollisions, lines 263-302: the trigger path of one manifold
TriggerPath(st, e0, e1) ==
    TriggerSteps(st, e0, e1, TriggerEvents(st, e0, "collision"), TriggerEvents(st, e1, "collision"),
                 TriggerEvents(st, e0, "rigidbody"), TriggerEvents(st, e1, "rigidbody"),
                 NoResponse(st, e0), NoResponse(st, e1))

\* reverseContacts.push(reverseContactPoint): the point is cp.items[cp.count]
PushReverse(st) == [st EXCEPT !.rev = Append(@, st.cp.count)]

\* lines 313-317: forwardContacts.push(contactPoint), then the reverse point
LocalStep(st, bt, local, contactPoint) ==
    IF local
    THEN PushReverse(CreateReverseContactPointFromAmmo(
                         [st EXCEPT !.fwd = Append(@, contactPoint)], bt))
    ELSE st

\* this.system.fire('contact', result) with the record just handed out
FireSingle(st) == FireGlobal(st, st.scr.items[st.scr.count])

\* lines 319-323: the global contact event of one contact point
GlobalStep(st, e0, e1, globalEvents, contactPoint) ==
    IF globalEvents THEN FireSingle(CreateSingleContactResult(st, e0, e1, contactPoint)) ELSE st

\* lines 311-323, after _createContactPointFromAmmo has handed out cp.items[cp.count]
ContactPointStep(st, e0, e1, bt, local, globalEvents) ==
    GlobalStep(LocalStep(st, bt, local, st.cp.count), e0, e1, globalEvents, st.cp.count)

\* _checkForCollisions, lines 309-324: the loop over the manifold's contact points;
\* j is the 1-based index of the point about to be visited.
RECURSIVE ContactLoop(_, _, _, _, _, _, _)
ContactLoop(st, e0, e1, pts, local, globalEvents, j) ==
    IF j > Len(pts) \/ st.err # "none" THEN st
    ELSE ContactLoop(ContactPointStep(CreateContactPointFromAmmo(st, BtPoint(pts[j])), e0, e1,
                                      BtPoint(pts[j]), local, globalEvents),
                     e0, e1, pts, local, globalEvents, j + 1)

\* collisionstart fired whatever _storeCollision returned
StartAlways(st, e, comp, result, newCollision) ==
    FireResult(st, e, comp, "collisionstart", result)

\* if (newCollision) component.fire('collisionstart', result)
StartIf(st, e, comp, result, newCollision) ==
    IF newCollision THEN FireResult(st, e, comp, "collisionstart", result) ELSE st

\* collisionstart, then contact, on one component if present
FireLocalStartFirst(st, e, comp, result, newCollision) ==
    IF st.err = "none" /\ Present(st, e, comp)
    THEN FireResult(StartIf(st, e, comp, result, newCollision), e, comp, "contact", result)
    ELSE st

\* lines 330-335 and 337-342: contact, then collisionstart, on one component if present
FireLocal(st, e, comp, result, newCollision) ==
    IF st.err = "none" /\ Present(st, e, comp)
    THEN StartIf(FireResult(st, e, comp, "contact", result), e, comp, result, newCollision)
    ELSE st

\* lines 330-342, after _storeCollision has left its return value in st.nc
FireBoth(st, e, result) ==
    FireLocal(FireLocal(st, e, "collision", result, st.nc), e, "rigidbody", result, st.nc)

\* lines 328-342, after _createContactResult has handed out cr.items[cr.count]
StoreAndFire(st, e, other) == FireBoth(StoreCollision(st, e, other), e, st.cr.count)

\* _checkForCollisions, lines 326-343 and 345-362: the local events of one entity
LocalEvents(st, e, other, contacts) ==
    StoreAndFire(CreateContactResult(st, other, contacts), e, other)

\* lines 326-343: the local events of e0, with the forward contact points
ForwardLocal(st, e0, e1, e0Events) ==
    IF e0Events /\ st.err = "none" THEN LocalEvents(st, e0, e1, st.fwd) ELSE st

\* lines 345-362: the local events of e1, with the reverse contact points
ReverseLocal(st, e0, e1, e1Events) ==
    IF e1Events /\ st.err = "none" THEN LocalEvents(st, e1, e0, st.rev) ELSE st

\* the physical path without the test of line 308: the contact loop always runs
PhysicalEventsAlways(st, e0, e1, pts, e0Events, e1Events, globalEvents) ==
    ReverseLocal(ForwardLocal(ContactLoop(st, e0, e1, pts, e0Events \/ e1Events,
                                          globalEvents, 1),
                              e0, e1, e0Events),
                 e0, e1, e1Events)

\* lines 308-363: the work of the physical path, when somebody listens
PhysicalEvents(st, e0, e1, pts, e0Events, e1Events, globalEvents) ==
    IF globalEvents \/ e0Events \/ e1Events
    THEN ReverseLocal(ForwardLocal(ContactLoop(st, e0, e1, pts, e0Events \/ e1Events,
                                               globalEvents, 1),
                                   e0, e1, e0Events),
                      e0, e1, e1Events)
    ELSE st

\* _checkForCollisions, lines 304-363: the physical-contact path of one manifold
PhysicalPath(st, e0, e1, pts) ==
    PhysicalEvents(st, e0, e1, pts, HasContactEvent(st, e0), HasContactEvent(st, e1),
                   st.globalContact)

\* lines 254-256: fresh forwardContacts, reverseContacts and newCollision
ResetManifold(st) == [st EXCEPT !.fwd = << >>, !.rev = << >>, !.nc = FALSE]

\* one manifold, without the numContacts > 0 test of line 258
ManifoldNoCountTest(st, m) ==
    IF m.e0 = NoEntity \/ m.e1 = NoEntity THEN st
    ELSE IF NoResponse(st, m.e0) \/ NoResponse(st, m.e1)
    THEN TriggerPath(ResetManifold(st), m.e0, m.e1)
    ELSE PhysicalPath(ResetManifold(st), m.e0, m.e1, m.pts)

\* _checkForCollisions, lines 234-365: one manifold
Manifold(st, m) ==
    IF m.e0 = NoEntity \/ m.e1 = NoEntity THEN st
    ELSE IF Len(m.pts) = 0 THEN ResetManifold(st)
    ELSE IF NoResponse(st, m.e0) \/ NoResponse(st, m.e1)
    THEN TriggerPath(ResetManifold(st), m.e0, m.e1)
    ELSE PhysicalPath(ResetManifold(st), m.e0, m.e1, m.pts)

RECURSIVE ManifoldLoop(_, _)
ManifoldLoop(st, ms) ==
    IF ms = << >> \/ st.err # "none" THEN st
    ELSE ManifoldLoop(Manifold(st, Head(ms)), Tail(ms))

\* pool.freeAll(), journalled with the number of events fired so far
FreeAll(st, pool) ==
    [st EXCEPT ![pool] = PoolFreeAll(@),
               !.freeCalls = Append(@, [pool |-> pool, at |-> Len(st.events)])]

\* a pass that starts on the transient map the last pass left
ResetFrameKeep(st) == st

\* line 230: this.frameCollisions = {}
ResetFrame(st) == [st EXCEPT !.frameCollisions = << >>]

\* a pass that does not call _cleanOldCollisions
CleanStepSkipped(st) == st

\* line 369: this._cleanOldCollisions()
CleanStep(st) == IF st.err = "none" THEN CleanOldCollisions(st) ELSE st

\* lines 372-374: the three freeAll calls
FreePools(st) ==
    IF st.err = "none" THEN FreeAll(FreeAll(FreeAll(st, "cp"), "cr"), "scr") ELSE st

\* _checkForCollisions with the pools freed before the cleaning pass
CheckForCollisionsFreeFirst(st, ms) ==
    CleanStep(FreePools(ManifoldLoop(ResetFrame(st), ms)))

\* _checkForCollisions(world, timeStep), with the dispatcher's manifolds ms
CheckForCollisions(st, ms) ==
    FreePools(CleanStep(ManifoldLoop(ResetFrame(st), ms)))

\* ------------------------------------------------------------------ the provider as a value
\* the state an operation of the provider works on
Provider ==
    [ents |-> ents, listeners |-> listeners, globalContact |-> globalContact,
     collisions |-> collisions, frameCollisions |-> frameCollisions,
     cp |-> contactPointPool, cr |-> contactResultPool, scr |-> singleContactResultPool,
     events |-> << >>, storeCalls |-> << >>, removals |-> << >>, freeCalls |-> << >>,
     handed |-> << >>, fwd |-> << >>, rev |-> << >>, nc |-> FALSE, err |-> "none",
     handler |-> handler]

\* the pairs open after the last operation
OpenNow ==
    (open \cup {<<storeCalls[i].entity, storeCalls[i].other>> :
                   i \in {j \in 1..Len(storeCalls) : storeCalls[j].ret}})
        \ {<<removals[i].entity, removals[i].other>> : i \in 1..Len(removals)}

\* the unordered pairs that have a manifold with at least one contact point
ContactPairs(ms) ==
    {{ms[i].e0, ms[i].e1} : i \in {j \in 1..Len(ms) :
        ms[j].e0 # NoEntity /\ ms[j].e1 # NoEntity /\ Len(ms[j].pts) > 0}}

\* the unordered pairs that have a manifold
ManifoldPairs(ms) ==
    {{ms[i].e0, ms[i].e1} : i \in {j \in 1..Len(ms) : ms[j].e0 # NoEntity /\ ms[j].e1 # NoEntity}}

EnterNames == {"triggerenter", "collisionstart"}
ExitNames == {"triggerleave", "collisionend"}

\* <<component, event, receiving entity, other entity>> of the enter events among evs
EnterHeads(evs) ==
    {<<evs[i].comp, evs[i].name, evs[i].a, evs[i].b>> :
        i \in {j \in 1..Len(evs) : evs[j].name \in EnterNames}}

\* the summary kept of the last pass when the next one starts
Summary ==
    [contact |-> ContactPairs(manifolds), enters |-> EnterHeads(events),
     pairs |-> PairsOf(collisions)]

Commit(st) ==
    /\ collisions' = st.collisions
    /\ frameCollisions' = st.frameCollisions
    /\ contactPointPool' = st.cp
    /\ contactResultPool' = st.cr
    /\ singleContactResultPool' = st.scr
    /\ events' = st.events
    /\ storeCalls' = st.storeCalls
    /\ removals' = st.removals
    /\ freeCalls' = st.freeCalls
    /\ handed' = st.handed
    /\ ents' = st.ents
    /\ open' = OpenNow
    /\ error' = st.err

\* ------------------------------------------------------------------ inputs
Entities == 1..NumEntities

EventNames == {"contact", "collisionstart", "collisionend", "triggerenter", "triggerleave"}

\* listener sets tried on a component; each holds a contact-family and a trigger-family name
ListenersA == {"collisionstart", "triggerleave"}
ListenersB == {"contact", "collisionend", "triggerenter"}

\* listener configurations of an entity with both components: none, one on the collision
\* volume, one on the rigid body, one on each
BodyListeners ==
    {[collision |-> {}, rigidbody |-> {}], [collision |-> ListenersA, rigidbody |-> {}],
     [collision |-> {}, rigidbody |-> ListenersB], [collision |-> ListenersB, rigidbody |-> ListenersA]}

\* listener configurations of a trigger volume (no rigid body)
TriggerListeners ==
    {[collision |-> {}, rigidbody |-> {}], [collision |-> ListenersA, rigidbody |-> {}],
     [collision |-> ListenersB, rigidbody |-> {}]}

\* a rigid body that listens for trigger events on both of its components
BothComponentsListen ==
    [collision |-> {"triggerenter"}, rigidbody |-> {"triggerenter", "triggerleave"}]

TriggerEntity == [collision |-> TRUE, rigidbody |-> FALSE, trigger |-> TRUE]
BodyEntity == [collision |-> TRUE, rigidbody |-> TRUE, trigger |-> FALSE]
\* an entity whose components were removed after the map recorded it
BareEntity == [collision |-> FALSE, rigidbody |-> FALSE, trigger |-> FALSE]

\* a manifold the dispatcher holds: its two bodies' entities and the number of its contact
\* points.  The dispatcher keeps the body order of a pair (body0 is the one created first),
\* so a pair is always reported as (a, b) with a < b; one shape has an unresolved body.
ManifoldShapes ==
    {[e0 |-> a, e1 |-> b, n |-> k] : a \in Entities, b \in Entities, k \in 0..MaxContacts}
    \cup {[e0 |-> NoEntity, e1 |-> 1, n |-> 1]}

\* the manifold lists of one pass; the j-th contact point of a manifold has the readings j
ManifoldLists ==
    UNION {{[i \in 1..len |->
                [e0 |-> sh[i].e0, e1 |-> sh[i].e1, pts |-> [j \in 1..sh[i].n |-> j]]] :
            sh \in [1..len -> {m \in ManifoldShapes : m.e0 < m.e1}]} : len \in 0..MaxManifolds}

\* ------------------------------------------------------------------ gravity
\* a JavaScript number: NaN, or a value counted in hundredths
Num(v) == [nan |-> FALSE, v |-> v]
NaN == [nan |-> TRUE, v |-> 0]

\* a !== b on numbers: NaN differs from every number, itself included
StrictNotEqual(a, b) == a.nan \/ b.nan \/ a.v # b.v

\* storing a double into a Float32Array element or into a btVector3 component rounds it to
\* the nearest float: here the floats are the multiples of 4 hundredths, so -9.81 is not one
Fround(x) == IF x.nan THEN x ELSE Num(((x.v + 2) \div 4) * 4)

Vec(x, y, z) == [x |-> x, y |-> y, z |-> z]

\* gravity = new Vec3(0, -9.81, 0)
DefaultGravity == Vec(Num(0), Num(-981), Num(0))

\* the gravity of a new btDiscreteDynamicsWorld
WorldDefaultGravity == Vec(Num(0), Num(-1000), Num(0))

\* onUpdate, lines 460-462: the downcast of system.gravity into _gravityFloat32
GravityFloat32(g) == Vec(Fround(g.x), Fround(g.y), Fround(g.z))

\* the test that looks at the x component only
GravityDiffersInX(cur, g) == StrictNotEqual(cur.x, g.x)

\* setGravity, lines 102-104
GravityDiffers(cur, g) ==
    StrictNotEqual(cur.x, g.x) \/ StrictNotEqual(cur.y, g.y) \/ StrictNotEqual(cur.z, g.z)

\* setGravity, lines 99-108, on the world w: gravity.setValue and dynamicsWorld.setGravity
\* run iff a component differs; calls is the number of dynamicsWorld.setGravity calls made
SetGravity(w, g) ==
    IF GravityDiffers(w.gravity, g)
    THEN [w EXCEPT !.gravity = GravityFloat32(g), !.calls = 1]
    ELSE [w EXCEPT !.calls = 0]

\* onUpdate, lines 460-464; arg is the vector handed to setGravity, was the world's gravity
\* before the call, and repeat tells that the call before this one was handed the same vector
GravitySynced(w, g) ==
    [SetGravity(w, GravityFloat32(g)) EXCEPT
        !.called = TRUE, !.arg = GravityFloat32(g), !.was = w.gravity,
        !.repeat = w.called /\ w.arg = GravityFloat32(g)]

NewWorld ==
    [gravity |-> WorldDefaultGravity, calls |-> 0, called |-> FALSE,
     arg |-> WorldDefaultGravity, repeat |-> FALSE, was |-> WorldDefaultGravity]

\* ------------------------------------------------------------------ constructors
\* The heap is the sequence of the Vec3 objects made so far, each held by its value (0 is
\* the zero vector); a vector field of a record holds the index of its object.

\* the no-argument branch with one Vec3 shared by the five fields
SingleContactResultShared(heap) ==
    [heap |-> Append(heap, 0), err |-> "none",
     rec |-> [a |-> NoEntity, b |-> NoEntity, impulse |-> 0,
              localPointA |-> Len(heap) + 1, localPointB |-> Len(heap) + 1,
              pointA |-> Len(heap) + 1, pointB |-> Len(heap) + 1, normal |-> Len(heap) + 1]]

\* SingleContactResult constructor, contact.js lines 163-170: five new Vec3()
SingleContactResultEmpty(heap) ==
    [heap |-> heap \o <<0, 0, 0, 0, 0>>, err |-> "none",
     rec |-> [a |-> NoEntity, b |-> NoEntity, impulse |-> 0,
              localPointA |-> Len(heap) + 1, localPointB |-> Len(heap) + 2,
              pointA |-> Len(heap) + 3, pointB |-> Len(heap) + 4, normal |-> Len(heap) + 5]]

\* SingleContactResult constructor, contact.js lines 154-161: the contact point's own
\* vectors are taken over
SingleContactResultOf(heap, a, b, cp) ==
    [heap |-> heap, err |-> "none",
     rec |-> [a |-> a, b |-> b, impulse |-> cp.impulse,
              localPointA |-> cp.localPoint, localPointB |-> cp.localPointOther,
              pointA |-> cp.point, pointB |-> cp.pointOther, normal |-> cp.normal]]

\* new SingleContactResult(...) with n arguments, contact.js lines 152-172; with one or
\* two arguments contactPoint is undefined and reading contactPoint.impulse throws
SingleContactResultNew(heap, n, a, b, cp) ==
    IF n = 0 THEN SingleContactResultEmpty(heap)
    ELSE IF n < 3 THEN [heap |-> heap, err |-> "TypeError",
                        rec |-> [a |-> a, b |-> b] @@ [f \in {"impulse", "localPointA",
                                   "localPointB", "pointA", "pointB", "normal"} |-> Undefined]]
         ELSE SingleContactResultOf(heap, a, b, cp)

\* ------------------------------------------------------------------ raycasts
\* what a call returned: kind is "null", "result" (items holds the one RaycastResult),
\* "array" (items is the array) or "error" (the call threw)
Returned(kind, items) == [kind |-> kind, items |-> items, error |-> "none"]
Thrown(name) == [kind |-> "error", items |-> << >>, error |-> name]

\* new RaycastResult(entity, point, normal, hitFraction), contact.js lines 61-66; at names
\* the hit whose point and normal the result copies
RaycastResultNew(entity, at, hitFraction) ==
    [entity |-> entity, at |-> at, hitFraction |-> hitFraction]

\* body.entity.tags.has(...options.filterTags) and options.filterCallback(body.entity), for
\* the entities a ray can meet: 1 passes both, 2 the tags only, 3 the callback only
Tagged(e) == e \in {1, 2}
Accepted(e) == e \in {1, 3}

\* the filter that looks at the tags only
FilteredByTagsOnly(options, e) == options.filterTags /\ ~Tagged(e)

\* raycastAll, line 450: the hit is skipped
Filtered(options, e) ==
    (options.filterTags /\ ~Tagged(e)) \/ (options.filterCallback /\ ~Accepted(e))

\* raycastAll, lines 446-465: the loop over the hits, from hit i on
RECURSIVE CollectHits(_, _, _, _)
CollectHits(hits, options, i, results) ==
    IF i > Len(hits) THEN results
    ELSE IF hits[i].body /\ hits[i].entity # NoEntity /\ ~Filtered(options, hits[i].entity)
         THEN CollectHits(hits, options, i + 1,
                  Append(results, RaycastResultNew(hits[i].entity, i, hits[i].fraction)))
         ELSE CollectHits(hits, options, i + 1, results)

\* an insertion that puts r ahead of the results of equal hitFraction
RECURSIVE InsertBeforeEqual(_, _)
InsertBeforeEqual(sorted, r) ==
    IF sorted = << >> THEN <<r>>
    ELSE IF r.hitFraction <= Head(sorted).hitFraction THEN <<r>> \o sorted
         ELSE <<Head(sorted)>> \o InsertBeforeEqual(Tail(sorted), r)

\* Array.prototype.sort with (a, b) => a.hitFraction - b.hitFraction is a stable sort: r
\* goes behind every result that does not compare greater
RECURSIVE InsertByFraction(_, _)
InsertByFraction(sorted, r) ==
    IF sorted = << >> THEN <<r>>
    ELSE IF r.hitFraction < Head(sorted).hitFraction THEN <<r>> \o sorted
         ELSE <<Head(sorted)>> \o InsertByFraction(Tail(sorted), r)

\* raycastAll, line 468
RECURSIVE SortByHitFraction(_)
SortByHitFraction(rs) ==
    IF rs = << >> THEN << >>
    ELSE InsertByFraction(SortByHitFraction(SubSeq(rs, 1, Len(rs) - 1)), rs[Len(rs)])

\* raycastAll, lines 467-469
SortIf(options, rs) == IF options.sort THEN SortByHitFraction(rs) ELSE rs

\* a query that goes through without Ammo.AllHitsRayResultCallback
AllHitsQuerySilent(allHits) == "ok"

\* raycastAll, lines 422-428: Debug.assert does not stop the call; new
\* Ammo.AllHitsRayResultCallback(...) on an Ammo that lacks the class throws a TypeError
AllHitsQuery(allHits) == IF allHits THEN "ok" ELSE "TypeError"

\* raycastAll, lines 421-475
RaycastAll(hits, options, allHits) ==
    IF AllHitsQuery(allHits) # "ok" THEN Thrown(AllHitsQuery(allHits))
    ELSE Returned("array", SortIf(options, CollectHits(hits, options, 1, << >>)))

\* raycastFirst that hands its options on as they are
KeepSort(options) == options

\* raycastFirst, line 380: options.sort = true
ForceSort(options) == [options EXCEPT !.sort = TRUE]

\* raycastFirst, line 381: raycastAll(...)[0] || null
FirstOrNull(r) ==
    IF r.kind = "error" THEN r
    ELSE IF r.items = << >> THEN Returned("null", << >>)
         ELSE Returned("result", <<r.items[1]>>)

\* rayTest with a ClosestRayResultCallback, lines 388-398: the callback ends up holding a
\* hit of the least fraction; which one of several such hits is the world's choice
ClosestHits(hits) ==
    {i \in 1..Len(hits) : \A j \in 1..Len(hits) : hits[i].fraction <= hits[j].fraction}

\* raycastFirst, lines 399-418, when the callback holds hit i
ClosestResult(hits, i) ==
    IF hits[i].body
    THEN Returned("result", <<RaycastResultNew(hits[i].entity, i, hits[i].fraction)>>)
    ELSE Returned("null", << >>)

\* raycastFirst, line 379
HasFilter(options) == options.filterTags \/ options.filterCallback

\* raycastFirst, lines 377-419: the values the call can return
RaycastFirst(hits, options, allHits) ==
    IF HasFilter(options) THEN {FirstOrNull(RaycastAll(hits, ForceSort(options), allHits))}
    ELSE IF hits = << >> THEN {Returned("null", << >>)}
         ELSE {ClosestResult(hits, i) : i \in ClosestHits(hits)}

\* ------------------------------------------------------------------ library loading
\* AmmoProvider.createInstance, lines 25-37: a provider iff Ammo is defined
CreateInstance(ammo) == ammo

\* the module as loaded: the scratch variables of lines 13-16 are undefined
NoProvider == [objects |-> "undefined", live |-> {}, created |-> 0]

\* createInstance with Ammo defined, lines 29-32: a new provider, whose init() makes the
\* scratch objects if _ammoTransform === undefined (lines 54-65) and leaves them as they
\* are otherwise
CreatedProvider(sc) ==
    [objects |-> IF sc.objects = "undefined" THEN "live" ELSE sc.objects,
     live |-> sc.live \cup {sc.created + 1},
     created |-> sc.created + 1]

\* one provider has been created
OneProvider == CreatedProvider(NoProvider)

\* onLibraryLoaded that subscribes whatever createInstance returned
SubscribesAlways(provider) == TRUE

\* onLibraryLoaded, lines 290-300: on('update') with a provider, off('update') without
Subscribes(provider) == provider

\* the system once onLibraryLoaded has run with Ammo defined
LibraryLoaded ==
    [ammo |-> TRUE, loaded |-> TRUE, provider |-> TRUE, subscribed |-> TRUE, err |-> "none"]

\* ------------------------------------------------------------------ frame loop
\* the syncs with kinematic bodies ahead of compounds
SyncKinematicFirst == <<"gravity", "triggers", "kinematic", "compounds">>

\* onUpdate, lines 460-480: what runs ahead of the step, in order
SyncPhases == <<"gravity", "triggers", "compounds", "kinematic">>

NewFrame ==
    [k |-> 0, subSteps |-> 0, passes |-> 0, free |-> [cp |-> 0, cr |-> 0, scr |-> 0],
     err |-> "none", phases |-> << >>]

\* init that never registers the callback
InitNeverRegisters(has) == FALSE

\* init, lines 47-52: the callback is registered iff the world has setInternalTickCallback
InitRegistersTick(has) == has

\* afterStep, lines 120-124: what the call does.  The fallback call names dt, which no
\* scope of the module declares, so evaluating its arguments raises a ReferenceError
\* before _checkForCollisions is entered.
AfterStep(has) == IF ~has THEN "ReferenceError" ELSE "nothing"

FreeCount(calls, pool) == Cardinality({i \in 1..Len(calls) : calls[i].pool = pool})

\* AmmoProvider.createInstance / init (the world and the tick callback) and the
\* PhysicsProvider constructor
InitMaps ==
    /\ collisions = << >>
    /\ frameCollisions = << >>
    /\ contactPointPool = ObjectPoolNew(ContactPointDefault, 1)
    /\ contactResultPool = ObjectPoolNew(ContactResultDefault, 1)
    /\ singleContactResultPool = ObjectPoolNew(SingleContactResultDefault, 1)
    /\ events = << >> /\ storeCalls = << >> /\ removals = << >> /\ freeCalls = << >>
    /\ handed = << >> /\ manifolds = << >> /\ open = {}
    /\ prev = [contact |-> {}, enters |-> {}, pairs |-> {}]
    /\ pc = "idle" /\ subStepsLeft = 0 /\ frame = NewFrame
    /\ lastOp = "init" /\ error = "none"

\* no raycast has been made, no record constructed
InitQueries ==
    /\ ray = [hits |-> << >>, options |-> [filterTags |-> FALSE, filterCallback |-> FALSE,
                                          sort |-> FALSE],
              allHits |-> TRUE, op |-> "none", ret |-> Returned("none", << >>)]
    /\ made = [op |-> "none"]

InitProvider ==
    /\ InitMaps
    /\ handler = NoHandler
    /\ scratch = OneProvider
    /\ hasTickCallback \in BOOLEAN
    /\ tickRegistered = InitRegistersTick(hasTickCallback)
    /\ system = LibraryLoaded
    /\ gravity = DefaultGravity
    /\ world = NewWorld
    /\ InitQueries

Init ==
    /\ InitProvider
    /\ ents \in {f \in [Entities -> {TriggerEntity, BodyEntity}] : ~f[2].trigger}
    /\ listeners = [e \in Entities |->
          IF ents[e].trigger THEN [collision |-> ListenersA, rigidbody |-> {}]
          ELSE [collision |-> ListenersB, rigidbody |-> ListenersA]]
    /\ globalContact = TRUE

\* onUpdate, lines 451-483: gravity, trigger, compound and kinematic sync, then the call of
\* step(); stepSimulation decides how many fixed sub-steps it runs
OnUpdateBegin ==
    /\ system.subscribed
    /\ pc = "idle"
    /\ pc' = "step"
    /\ world' = GravitySynced(world, gravity)
    /\ \E k \in 0..MaxSubSteps :
          /\ subStepsLeft' = k
          /\ frame' = [NewFrame EXCEPT !.k = k, !.phases = SyncPhases \o <<"step">>]
    /\ lastOp' = "onUpdateBegin"
    /\ UNCHANGED <<bookVars, poolVars, entVars, passVars, hasTickCallback, tickRegistered,
                   system, gravity, queryVars>>

\* the registered tick callback: one _checkForCollisions call on the manifolds ms
DetectionPass(ms) ==
    LET st == CheckForCollisions(Provider, ms)
    IN  /\ Commit(st)
        /\ manifolds' = ms
        /\ prev' = Summary
        /\ lastOp' = "pass"

\* one internal sub-step of stepSimulation: the world integrates, then calls the registered
\* tick callback, _checkForCollisions, on the manifolds it now holds
InternalTick ==
    /\ pc = "step" /\ subStepsLeft > 0
    /\ subStepsLeft' = subStepsLeft - 1
    /\ IF tickRegistered
       THEN /\ \E ms \in ManifoldLists : DetectionPass(ms)
            /\ frame' = [frame EXCEPT !.subSteps = @ + 1, !.passes = @ + 1,
                  !.free = [q \in {"cp", "cr", "scr"} |-> @[q] + FreeCount(freeCalls', q)]]
       ELSE /\ frame' = [frame EXCEPT !.subSteps = @ + 1]
            /\ lastOp' = "subStep"
            /\ UNCHANGED <<bookVars, poolVars, ents, passVars>>
    /\ UNCHANGED <<listeners, globalContact, handler, scratch, hasTickCallback, tickRegistered, pc, sideVars>>

\* onUpdate, lines 485-492: stepSimulation has returned; dynamic sync, then afterStep().
\* afterStep reads the undeclared name dt when the world has no setInternalTickCallback:
\* a ReferenceError, raised before _checkForCollisions is entered.
OnUpdateEnd ==
    /\ pc = "step" /\ subStepsLeft = 0
    /\ pc' = "idle"
    /\ frame' = [frame EXCEPT !.err = IF AfterStep(hasTickCallback) = "nothing" THEN "none"
                                        ELSE AfterStep(hasTickCallback),
                               !.phases = @ \o <<"dynamic", "afterStep">>]
    /\ lastOp' = "onUpdateEnd"
    /\ UNCHANGED <<bookVars, poolVars, entVars, passVars, hasTickCallback, tickRegistered,
                   subStepsLeft, sideVars>>

Next == OnUpdateBegin \/ InternalTick \/ OnUpdateEnd

Spec == Init /\ [][Next]_vars

\* ------------------------------------------------------------------ detection passes alone
TickCallback ==
    /\ \E ms \in ManifoldLists : DetectionPass(ms)
    /\ UNCHANGED <<listeners, globalContact, handler, scratch, loopVars, sideVars>>

\* trigger volumes and rigid bodies, at least one of each
InitTrigger ==
    /\ InitProvider /\ hasTickCallback
    /\ ents \in [Entities -> {TriggerEntity, BodyEntity}]
    /\ \E e \in Entities : ents[e].trigger
    /\ \E e \in Entities : ~ents[e].trigger
    /\ listeners \in [Entities -> BodyListeners \cup TriggerListeners \cup {BothComponentsListen}]
    /\ \A e \in Entities :
          listeners[e] \in (IF ents[e].trigger THEN TriggerListeners
                            ELSE BodyListeners \cup {BothComponentsListen})
    /\ globalContact = TRUE

\* every entity is a rigid body
InitPhysical ==
    /\ InitProvider /\ hasTickCallback
    /\ ents = [e \in Entities |-> BodyEntity]
    /\ listeners \in [Entities -> BodyListeners]
    /\ globalContact \in BOOLEAN

SpecTrigger == InitTrigger /\ [][TickCallback]_vars
SpecPhysical == InitPhysical /\ [][TickCallback]_vars

\* ------------------------------------------------------------------ bookkeeping alone
\* the provider's bookkeeping driven call by call, on MapEntities entities
MapIds == 1..MapEntities

InitMap ==
    /\ InitProvider /\ hasTickCallback
    /\ ents \in [MapIds -> {TriggerEntity, BodyEntity, BareEntity}]
    /\ ents[1] = TriggerEntity /\ ents[2] = BodyEntity
    /\ listeners = [e \in MapIds |-> [collision |-> {}, rigidbody |-> {}]]
    /\ globalContact = FALSE

\* this.frameCollisions = {} (the start of a pass)
MapNewFrame ==
    /\ frameCollisions # << >>
    /\ Commit([Provider EXCEPT !.frameCollisions = << >>])
    /\ lastOp' = "newFrame"
    /\ prev' = Summary
    /\ UNCHANGED <<listeners, globalContact, handler, scratch, manifolds, loopVars, sideVars>>

\* one _storeCollision(entity, other) call
MapStore ==
    /\ \E e \in MapIds, o \in MapIds :
          /\ e # o
          /\ EntryCount(frameCollisions) < MaxFrameOthers
          /\ Commit(StoreCollision(Provider, e, o))
    /\ lastOp' = "store"
    /\ prev' = Summary
    /\ UNCHANGED <<listeners, globalContact, handler, scratch, manifolds, loopVars, sideVars>>

\* one _cleanOldCollisions() call
MapClean ==
    /\ Commit(CleanOldCollisions(Provider))
    /\ lastOp' = "clean"
    /\ prev' = Summary
    /\ UNCHANGED <<listeners, globalContact, handler, scratch, manifolds, loopVars, sideVars>>

MapNext == MapNewFrame \/ MapStore \/ MapClean

SpecMap == InitMap /\ [][MapNext]_vars

\* ------------------------------------------------------------------ library loading
\* a provider at rest, on rigid bodies nobody listens to
InitIdle ==
    /\ InitMaps
    /\ handler = NoHandler
    /\ scratch = OneProvider
    /\ ents = [e \in Entities |-> BodyEntity]
    /\ listeners = [e \in Entities |-> [collision |-> {}, rigidbody |-> {}]]
    /\ globalContact = FALSE

\* the system as constructed: onLibraryLoaded has not run yet, Ammo is defined or not
InitLibrary ==
    /\ InitMaps
    /\ handler = NoHandler
    /\ scratch = NoProvider
    /\ ents \in {f \in [Entities -> {TriggerEntity, BodyEntity}] : ~f[2].trigger}
    /\ listeners = [e \in Entities |->
          IF ents[e].trigger THEN [collision |-> ListenersA, rigidbody |-> {}]
          ELSE [collision |-> ListenersB, rigidbody |-> ListenersA]]
    /\ globalContact = TRUE
    /\ hasTickCallback \in BOOLEAN
    /\ tickRegistered = FALSE
    /\ system \in {[ammo |-> a, loaded |-> FALSE, provider |-> FALSE, subscribed |-> FALSE,
                    err |-> "none"] : a \in BOOLEAN}
    /\ gravity = DefaultGravity
    /\ world = NewWorld
    /\ InitQueries

\* onLibraryLoaded, lines 286-301: createInstance (which runs init() on the provider it
\* makes), then on('update') or off('update').  Neither branch can throw; onUpdate runs
\* on later frames only while it is subscribed (the guard of OnUpdateBegin).
OnLibraryLoaded ==
    /\ ~system.loaded
    /\ system' = [system EXCEPT !.loaded = TRUE,
                                !.provider = CreateInstance(system.ammo),
                                !.subscribed = Subscribes(CreateInstance(system.ammo)),
                                !.err = "none"]
    /\ tickRegistered' = (CreateInstance(system.ammo) /\ InitRegistersTick(hasTickCallback))
    /\ scratch' = IF CreateInstance(system.ammo) THEN CreatedProvider(scratch) ELSE scratch
    /\ lastOp' = "onLibraryLoaded"
    /\ UNCHANGED <<bookVars, poolVars, ents, listeners, globalContact, handler, passVars,
                   hasTickCallback, pc, subStepsLeft, frame, gravity, world, queryVars>>

LibraryNext == OnLibraryLoaded \/ OnUpdateBegin \/ InternalTick \/ OnUpdateEnd

SpecLibrary == InitLibrary /\ [][LibraryNext]_vars

\* ------------------------------------------------------------------ gravity alone
\* values script code assigns to system.gravity
GravityVectors ==
    {Vec(x, y, z) : x \in {Num(0), NaN}, y \in {Num(0), Num(-981), Num(-980), NaN},
                    z \in {Num(0), Num(-981)}}

InitGravity ==
    /\ InitIdle
    /\ hasTickCallback = TRUE
    /\ tickRegistered = TRUE
    /\ system = LibraryLoaded
    /\ gravity = DefaultGravity
    /\ world = NewWorld
    /\ InitQueries

\* a script assigns system.gravity
SetSystemGravity ==
    /\ \E g \in GravityVectors : g # gravity /\ gravity' = g
    /\ lastOp' = "assignGravity"
    /\ UNCHANGED <<bookVars, poolVars, entVars, passVars, loopVars, system, world, queryVars>>

\* the gravity sync of a frame, onUpdate lines 460-464: downcast, then provider.setGravity
GravitySync ==
    /\ world' = GravitySynced(world, gravity)
    /\ lastOp' = "setGravity"
    /\ UNCHANGED <<bookVars, poolVars, entVars, passVars, loopVars, system, gravity, queryVars>>

GravityNext == SetSystemGravity \/ GravitySync

SpecGravity == InitGravity /\ [][GravityNext]_vars

\* ------------------------------------------------------------------ raycasts alone
\* a hit the world reports: castObject always yields a body for a hit; the body's entity
\* is 1, 2 or 3, or is not set; the fraction is one of two, so that hits can tie
RayHits == {[body |-> TRUE, entity |-> e, fraction |-> f] : e \in 0..3, f \in 1..2}

\* the hits along one segment, in the order the world reports them
RayScenes == UNION {[1..n -> RayHits] : n \in 0..MaxHits}

RayOptions == [filterTags : BOOLEAN, filterCallback : BOOLEAN, sort : BOOLEAN]

InitRaycast ==
    /\ InitIdle
    /\ hasTickCallback = TRUE
    /\ tickRegistered = TRUE
    /\ system = LibraryLoaded
    /\ gravity = DefaultGravity
    /\ world = NewWorld
    /\ ray \in [hits : RayScenes, options : RayOptions, allHits : BOOLEAN, op : {"none"},
                 ret : {Returned("none", << >>)}]
    /\ made = [op |-> "none"]

\* one raycastFirst(start, end, options) call; a call with a filter leaves options.sort set
RaycastFirstCall ==
    /\ \E ret \in RaycastFirst(ray.hits, ray.options, ray.allHits) :
          ray' = [ray EXCEPT !.op = "raycastFirst", !.ret = ret,
                             !.options = IF HasFilter(@) THEN ForceSort(@) ELSE @]
    /\ lastOp' = "raycastFirst"
    /\ UNCHANGED <<bookVars, poolVars, entVars, passVars, loopVars, system, gravity, world, made>>

\* one raycastAll(start, end, options) call
RaycastAllCall ==
    /\ ray' = [ray EXCEPT !.op = "raycastAll",
                          !.ret = RaycastAll(ray.hits, ray.options, ray.allHits)]
    /\ lastOp' = "raycastAll"
    /\ UNCHANGED <<bookVars, poolVars, entVars, passVars, loopVars, system, gravity, world, made>>

RaycastNext == RaycastFirstCall \/ RaycastAllCall

SpecRaycast == InitRaycast /\ [][RaycastNext]_vars

\* ------------------------------------------------------------------ constructors alone
\* the vectors that exist beforehand: a zero vector and two others
BaseHeap == <<0, 21, 22>>

\* contact points whose vectors are among those of BaseHeap
ContactPoints ==
    [localPoint : 1..3, localPointOther : 1..3, point : 1..3, pointOther : 1..3,
     normal : 1..3, impulse : {0, 7}]

InitRecords ==
    /\ InitIdle
    /\ hasTickCallback = TRUE
    /\ tickRegistered = TRUE
    /\ system = LibraryLoaded
    /\ gravity = DefaultGravity
    /\ world = NewWorld
    /\ ray = [hits |-> << >>, options |-> [filterTags |-> FALSE, filterCallback |-> FALSE,
                                          sort |-> FALSE],
              allHits |-> TRUE, op |-> "none", ret |-> Returned("none", << >>)]
    /\ made \in [op : {"none"}, heap : {BaseHeap}, before : {0}, n : {0}, a : {NoEntity},
                  b : {NoEntity}, cp : ContactPoints, err : {"none"},
                  rec : {SingleContactResultDefault}]

\* new SingleContactResult(...) with no argument, or with (a), (a, b) or (a, b, cp)
ConstructSingleContactResult ==
    /\ Len(made.heap) + 5 <= MaxVectors
    /\ \E n \in 0..3, a \in 0..NumEntities, b \in 0..NumEntities :
          /\ n = 0 => (a = NoEntity /\ b = NoEntity)
          /\ n = 1 => b = NoEntity
          /\ made' = [op |-> "SingleContactResult", before |-> Len(made.heap), n |-> n,
                       a |-> a, b |-> b, cp |-> made.cp,
                       heap |-> SingleContactResultNew(made.heap, n, a, b, made.cp).heap,
                       err |-> SingleContactResultNew(made.heap, n, a, b, made.cp).err,
                       rec |-> SingleContactResultNew(made.heap, n, a, b, made.cp).rec]
    /\ lastOp' = "construct"
    /\ UNCHANGED <<bookVars, poolVars, entVars, passVars, loopVars, system, gravity, world, ray>>

SpecRecords == InitRecords /\ [][ConstructSingleContactResult]_vars

\* ------------------------------------------------------------------ properties
\* <<component, event, receiving entity, other entity>> of every event of evs, in order
Heads(evs) == [i \in 1..Len(evs) |-> <<evs[i].comp, evs[i].name, evs[i].a, evs[i].b>>]

RECURSIVE Flatten(_)
Flatten(ss) == IF ss = << >> THEN << >> ELSE Head(ss) \o Flatten(Tail(ss))

\* the number of events of evs with the given head
CountHead(evs, h) == Cardinality({i \in 1..Len(evs) : Heads(evs)[i] = h})

PairOfCall(c) == <<c.entity, c.other>>

\* the pairs for which a _storeCollision call has returned true and that no cleaning
\* pass has removed since, when the i-th _storeCollision call of the last operation starts
OpenBefore(i) ==
    open \cup {PairOfCall(storeCalls[j]) : j \in {n \in 1..(i - 1) : storeCalls[n].ret}}

\* the persistent map lists exactly the pairs recorded and not removed since
RecordedIsOpen == PairsOf(collisions) = OpenNow

\* C1: _storeCollision(entity, other) returns true exactly when no earlier call for the
\* same ordered pair has returned true since the pair was last removed by
\* _cleanOldCollisions (or ever): true once, false on every further call while the pair
\* stays recorded, true again on the first call after a removal.
C1_StoreReturnsTrueOncePerRecording ==
    \A i \in 1..Len(storeCalls) :
        storeCalls[i].ret <=> PairOfCall(storeCalls[i]) \notin OpenBefore(i)

\* a repeated call inside the recorded window has returned false
C1_Witness ==
    /\ lastOp = "store"
    /\ \E i \in 1..Len(storeCalls) :
          /\ ~storeCalls[i].ret
          /\ PairOfCall(storeCalls[i]) \in open
          /\ PairOfCall(storeCalls[i]) \in PairsOf(collisions)

\* the exit notifications lines 128-144 prescribe for one removed pair, from the
\* components the two entities have
ExpectedExit(r) ==
    IF ents[r.entity].trigger
    THEN (IF ents[r.entity].collision
          THEN <<<<"collision", "triggerleave", r.entity, r.other>>>> ELSE << >>)
         \o (IF ents[r.other].rigidbody
             THEN <<<<"rigidbody", "triggerleave", r.other, r.entity>>>> ELSE << >>)
    ELSE IF ~ents[r.other].trigger
    THEN (IF ents[r.entity].rigidbody
          THEN <<<<"rigidbody", "collisionend", r.entity, r.other>>>> ELSE << >>)
         \o (IF ents[r.entity].collision
             THEN <<<<"collision", "collisionend", r.entity, r.other>>>> ELSE << >>)
    ELSE << >>

ExpectedExits(rs) == Flatten([i \in 1..Len(rs) |-> ExpectedExit(rs[i])])

\* C5: for every pair _cleanOldCollisions removes, a trigger owner gets triggerleave on
\* its collision component (if present) and the other entity's rigidbody (if present) gets
\* triggerleave, never collisionend; a non-trigger owner with a non-trigger other gets
\* collisionend on its rigidbody and on its collision component (each if present); a
\* non-trigger owner with a trigger other gets nothing.  The pair is removed in all cases.
C5_ExitRouting ==
    lastOp = "clean" =>
        /\ Heads(events) = ExpectedExits(removals)
        /\ \A i \in 1..Len(removals) : PairOfCall(removals[i]) \notin PairsOf(collisions)

\* one cleaning pass has removed a pair of each of the three routings
C5_Witness ==
    /\ lastOp = "clean"
    /\ \E i, j, k \in 1..Len(removals) :
          /\ ents[removals[i].entity].trigger
          /\ ~ents[removals[j].entity].trigger /\ ~ents[removals[j].other].trigger
          /\ ExpectedExit(removals[j]) # << >>
          /\ ~ents[removals[k].entity].trigger /\ ents[removals[k].other].trigger

\* C6: _cleanOldCollisions called while the transient map is empty removes every pair of
\* the persistent map, each once, with the exit notifications of its category, raises
\* nothing and leaves the persistent map empty.
C6_EmptyFrameRemovesAll ==
    (lastOp = "clean" /\ frameCollisions = << >>) =>
        /\ error = "none"
        /\ collisions = << >>
        /\ Range(removals) = {[entity |-> pr[1], other |-> pr[2]] : pr \in prev.pairs}
        /\ Len(removals) = Cardinality(prev.pairs)
        /\ Heads(events) = ExpectedExits(removals)

\* the cleaning pass ran on an empty transient map and removed at least two pairs
C6_Witness ==
    /\ lastOp = "clean" /\ frameCollisions = << >>
    /\ Len(removals) >= 2
    /\ events # << >>
    /\ collisions = << >>


\* the exit event of a pair's category
ExitName(pr) == IF \E e \in pr : ents[e].trigger THEN "triggerleave" ELSE "collisionend"

\* the positions in the last pass's events of the exit notifications fired for the pair
ExitEvents(pr) ==
    {i \in 1..Len(events) : events[i].name = ExitName(pr) /\ {events[i].a, events[i].b} = pr}

\* the pairs that had contact and an enter notification in the pass before the last one
\* and no manifold in the last one
EndedPairs ==
    {pr \in prev.contact :
        /\ \E h \in prev.enters : {h[3], h[4]} = pr
        /\ pr \notin ManifoldPairs(manifolds)}

\* C2: a pair that had a manifold with contact and an enter notification in one detection
\* pass and no manifold in the next gets its category's exit notification in that next
\* pass (collisionend or triggerleave), fired once and not repeated on any component, and
\* neither entity's persistent record lists the other afterwards.
C2_ExitFollowsEnter ==
    lastOp = "pass" =>
        \A pr \in EndedPairs :
            /\ ExitEvents(pr) # {}
            /\ \A i, j \in ExitEvents(pr) : Heads(events)[i] = Heads(events)[j] => i = j
            /\ \A e, o \in pr : <<e, o>> \notin PairsOf(collisions)

\* C3: between a trigger volume and a rigid body the only events fired on a component of
\* either entity are triggerenter and triggerleave, in every pass and with every listener
\* configuration; collisionstart, collisionend and contact are never fired for the pair.
C3_TriggerPairOnlyTriggerEvents ==
    \A i \in 1..Len(events) :
        (events[i].comp # "system" /\ ents[events[i].a].trigger # ents[events[i].b].trigger)
            => events[i].name \in {"triggerenter", "triggerleave"}

\* an overlap that began in the pass before ends in this one, while a participant
\* listens for contact events
C3_Witness ==
    /\ lastOp = "pass"
    /\ prev.enters # {}
    /\ \E i \in 1..Len(events) : events[i].name = "triggerleave"
    /\ \E e \in Entities : HasContactEvent(Provider, e)

\* the manifolds of the last pass between e and o with at least one contact point
NContact(e, o) ==
    Cardinality({i \in 1..Len(manifolds) :
        {manifolds[i].e0, manifolds[i].e1} = {e, o} /\ Len(manifolds[i].pts) > 0})

\* the _storeCollision(e, o) calls of the last pass that returned true
TrueStores(e, o) ==
    Cardinality({i \in 1..Len(storeCalls) :
        storeCalls[i] = [entity |-> e, other |-> o, ret |-> TRUE]})

\* C4: on the physical path an entity with a local contact, collisionstart or
\* collisionend listener gets, on each component it has, one contact event per manifold
\* with contact and one collisionstart per _storeCollision(entity, other) call that
\* returned true; that is one collisionstart in the first pass of a contact and none
\* while the contact persists.  An entity without such a listener gets neither.
C4_ContactEveryPassStartOnce ==
    lastOp = "pass" =>
        \A e, o \in Entities : (e # o /\ ~ents[e].trigger /\ ~ents[o].trigger) =>
            \A comp \in {"collision", "rigidbody"} :
                IF HasContactEvent(Provider, e) /\ ents[e][comp]
                THEN /\ CountHead(events, <<comp, "contact", e, o>>) = NContact(e, o)
                     /\ CountHead(events, <<comp, "collisionstart", e, o>>) = TrueStores(e, o)
                     /\ TrueStores(e, o) =
                            IF NContact(e, o) > 0 /\ {e, o} \notin prev.contact THEN 1 ELSE 0
                ELSE /\ CountHead(events, <<comp, "contact", e, o>>) = 0
                     /\ CountHead(events, <<comp, "collisionstart", e, o>>) = 0

\* a contact persists from the pass before: contact is fired again, collisionstart is not
C4_Witness ==
    /\ lastOp = "pass"
    /\ \E e, o \in Entities :
          /\ e # o /\ ~ents[e].trigger /\ ~ents[o].trigger
          /\ HasContactEvent(Provider, e)
          /\ {e, o} \in prev.contact
          /\ <<"collision", "collisionstart", e, o>> \in prev.enters
          /\ NContact(e, o) > 0
          /\ CountHead(events, <<"collision", "contact", e, o>>) > 0
          /\ CountHead(events, <<"collision", "collisionstart", e, o>>) = 0


ExpectedRecord(h) ==
    CASE h.kind = "point" ->
            [localPoint |-> h.from.bt.localPointA, localPointOther |-> h.from.bt.localPointB,
             point |-> h.from.bt.positionWorldOnA, pointOther |-> h.from.bt.positionWorldOnB,
             normal |-> h.from.bt.normalWorldOnB, impulse |-> h.from.bt.appliedImpulse]
      [] h.kind = "reverse" ->
            [localPoint |-> h.from.bt.localPointB, localPointOther |-> h.from.bt.localPointA,
             point |-> h.from.bt.positionWorldOnB, pointOther |-> h.from.bt.positionWorldOnA,
             normal |-> h.from.bt.normalWorldOnB, impulse |-> h.from.bt.appliedImpulse]
      [] h.kind = "result" -> [other |-> h.from.other, contacts |-> h.from.contacts]
      [] h.kind = "single" ->
            [a |-> h.from.a, b |-> h.from.b, impulse |-> h.from.cp.impulse,
             localPointA |-> h.from.cp.localPoint, localPointB |-> h.from.cp.localPointOther,
             pointA |-> h.from.cp.point, pointB |-> h.from.cp.pointOther,
             normal |-> h.from.cp.normal]

HandedOf(kinds) == {i \in 1..Len(handed) : handed[i].kind \in kinds}

\* C8: after a detection pass no pooled record is outstanding and the storage is kept, and
\* every record the four create functions handed out during the pass held, in every
\* field, the value its current writer put there; every contact point an event of the
\* pass carried is one written in this pass.
C8_PoolRoundTrip ==
    lastOp = "pass" =>
        /\ contactPointPool.count = 0 /\ contactResultPool.count = 0
        /\ singleContactResultPool.count = 0
        /\ Len(contactPointPool.items) >= Cardinality(HandedOf({"point", "reverse"}))
        /\ Len(contactResultPool.items) >= Cardinality(HandedOf({"result"}))
        /\ Len(singleContactResultPool.items) >= Cardinality(HandedOf({"single"}))
        /\ \A i \in 1..Len(handed) : handed[i].value = ExpectedRecord(handed[i])
        /\ \A i \in 1..Len(events) : \A j \in 1..Len(events[i].pts) :
              \E n \in HandedOf({"point", "reverse"}) : handed[n].value = events[i].pts[j]

\* a pass hands out records of all four kinds from storage that an earlier pass grew
C8_Witness ==
    /\ lastOp = "pass"
    /\ \A kind \in {"point", "reverse", "result", "single"} : HandedOf({kind}) # {}
    /\ Len(contactPointPool.items) >= 2 * Cardinality(HandedOf({"point", "reverse"}))
    /\ Len(contactResultPool.items) >= 2 * Cardinality(HandedOf({"result"}))
    /\ Len(singleContactResultPool.items) >= 2 * Cardinality(HandedOf({"single"}))

\* C9: with the tick callback available, one detection pass has run for every sub-step
\* executed so far, and an onUpdate call whose stepSimulation ran k sub-steps has run k
\* passes when it returns (none when k = 0).
C9_OnePassPerSubStep ==
    hasTickCallback =>
        /\ frame.passes = frame.subSteps
        /\ lastOp = "onUpdateEnd" => frame.passes = frame.k

\* an onUpdate call with more than one sub-step has returned
C9_Witness ==
    /\ hasTickCallback /\ lastOp = "onUpdateEnd"
    /\ frame.k > 1 /\ frame.passes = frame.k

\* C10: without the tick callback, an onUpdate call has run exactly one detection pass,
\* to completion and without an error, when it returns.
C10_FallbackPassOnce ==
    (lastOp = "onUpdateEnd" /\ ~hasTickCallback) =>
        /\ frame.passes = 1
        /\ frame.err = "none"
        /\ \A q \in {"cp", "cr", "scr"} : frame.free[q] = 1


\* the position of phase p in the phase list ps; 0 when absent
PhaseAt(ps, p) == IndexOf(ps, p)

\* C11 as stated: a finished frame has run gravity sync, kinematic sync, compound sync, the
\* step and the dynamic write-back in that order, kinematic sync before compound sync
C11_KinematicBeforeCompound ==
    lastOp = "onUpdateEnd" =>
        /\ 0 < PhaseAt(frame.phases, "gravity")
        /\ PhaseAt(frame.phases, "gravity") < PhaseAt(frame.phases, "kinematic")
        /\ PhaseAt(frame.phases, "kinematic") < PhaseAt(frame.phases, "compounds")
        /\ PhaseAt(frame.phases, "compounds") < PhaseAt(frame.phases, "step")
        /\ PhaseAt(frame.phases, "step") < PhaseAt(frame.phases, "dynamic")

\* C11, amended: a frame runs gravity sync, trigger transform update, compound sync,
\* kinematic sync, the step and the dynamic write-back in that order: compound sync comes
\* before kinematic sync, and both before the step
C11_CompoundBeforeKinematic ==
    /\ pc = "step" => frame.phases = <<"gravity", "triggers", "compounds", "kinematic", "step">>
    /\ lastOp = "onUpdateEnd" =>
          /\ 0 < PhaseAt(frame.phases, "gravity")
          /\ PhaseAt(frame.phases, "gravity") < PhaseAt(frame.phases, "compounds")
          /\ PhaseAt(frame.phases, "compounds") < PhaseAt(frame.phases, "kinematic")
          /\ PhaseAt(frame.phases, "kinematic") < PhaseAt(frame.phases, "step")
          /\ PhaseAt(frame.phases, "step") < PhaseAt(frame.phases, "dynamic")

C11_Witness == lastOp = "onUpdateEnd" /\ frame.subSteps > 0 /\ hasTickCallback

\* C12: when Ammo is undefined as onLibraryLoaded runs, no provider is made, onUpdate is
\* not subscribed, no frame ever starts, steps or fires an event, and onLibraryLoaded
\* raised nothing
C12_NoBackendNoOp ==
    (system.loaded /\ ~system.ammo) =>
        /\ ~system.provider /\ ~system.subscribed /\ ~tickRegistered
        /\ system.err = "none"
        /\ pc = "idle" /\ frame = NewFrame /\ world = NewWorld
        /\ events = << >> /\ manifolds = << >> /\ collisions = << >>

C12_Witness == system.loaded /\ ~system.ammo /\ lastOp = "onLibraryLoaded"


HasNaN(g) == g.x.nan \/ g.y.nan \/ g.z.nan

\* C19 as stated: after any setGravity(g) the world's gravity is g, and a setGravity(g)
\* that follows a setGravity of the same g makes no dynamicsWorld.setGravity call
C19_RepeatedSetGravityIsSilent ==
    lastOp = "setGravity" =>
        /\ world.gravity = world.arg
        /\ world.repeat => world.calls = 0

\* C19, amended: setGravity(g) calls dynamicsWorld.setGravity iff a component of g differs
\* from the world's gravity, where a NaN component always differs; afterwards the
\* world's gravity is g; and a setGravity(g) that follows a setGravity of the same g, no
\* component of which is NaN, makes no dynamicsWorld.setGravity call
C19_SetGravityOnlyOnChange ==
    lastOp = "setGravity" =>
        /\ world.gravity = world.arg
        /\ world.calls = 1 <=> (world.was # world.arg \/ HasNaN(world.arg))
        /\ (world.repeat /\ ~HasNaN(world.arg)) => world.calls = 0

\* a second sync of a gravity that is no float itself, with nothing pushed
C19_Witness ==
    /\ lastOp = "setGravity" /\ world.repeat /\ world.calls = 0
    /\ ~HasNaN(world.arg)
    /\ gravity # world.arg /\ world.arg # WorldDefaultGravity


\* the hits of the last query whose body has an entity that passes the filters asked for
Qualifying ==
    {i \in 1..Len(ray.hits) :
        /\ ray.hits[i].entity # NoEntity
        /\ ray.options.filterTags => Tagged(ray.hits[i].entity)
        /\ ray.options.filterCallback => Accepted(ray.hits[i].entity)}

\* the qualifying hit of the least fraction, the first reported of several
NearestQualifying ==
    {i \in Qualifying : \A j \in Qualifying :
        \/ ray.hits[i].fraction < ray.hits[j].fraction
        \/ ray.hits[i].fraction = ray.hits[j].fraction /\ i <= j}

\* the result r reports hit number r.at
ReportsHit(r) ==
    /\ r.at \in 1..Len(ray.hits)
    /\ r.entity = ray.hits[r.at].entity
    /\ r.hitFraction = ray.hits[r.at].fraction

\* what raycastAll returns on the last query's hits and options with sort forced on
SortedAll == RaycastAll(ray.hits, [ray.options EXCEPT !.sort = TRUE], ray.allHits).items

\* C13: raycastFirst with filterTags or filterCallback returns the first element of
\* raycastAll on the same segment and options with sort forced on, or null when that is
\* empty: the qualifying hit of the least hitFraction
C13_FilteredFirstIsHeadOfSortedAll ==
    (ray.op = "raycastFirst" /\ HasFilter(ray.options) /\ ray.allHits) =>
        /\ ray.ret.kind \in {"null", "result"}
        /\ ray.ret.kind = "null" <=> SortedAll = << >>
        /\ ray.ret.kind = "null" <=> Qualifying = {}
        /\ ray.ret.kind = "result" =>
              /\ ray.ret.items = <<SortedAll[1]>>
              /\ ReportsHit(ray.ret.items[1])
              /\ ray.ret.items[1].at \in NearestQualifying

\* a filtered query whose nearest qualifying hit is not the first one reported
C13_Witness ==
    /\ ray.op = "raycastFirst" /\ HasFilter(ray.options) /\ ray.allHits
    /\ ray.ret.kind = "result" /\ ray.ret.items[1].at > 1
    /\ 1 \in Qualifying

\* C14: raycastFirst never returns a RaycastResult whose entity is null or undefined; a
\* hit whose body has no entity makes it return null
C14_NoEntityIsMiss ==
    (ray.op = "raycastFirst" /\ ray.ret.kind = "result") =>
        ray.ret.items[1].entity # NoEntity

\* C15: raycastAll returns one RaycastResult for each hit whose body has an entity that
\* passes the filters, and nothing else; it returns an array even when no hit qualifies
C15_OneResultPerQualifyingHit ==
    (ray.op = "raycastAll" /\ ray.allHits) =>
        /\ ray.ret.kind = "array"
        /\ Len(ray.ret.items) = Cardinality(Qualifying)
        /\ {ray.ret.items[k].at : k \in 1..Len(ray.ret.items)} = Qualifying
        /\ \A k \in 1..Len(ray.ret.items) : ReportsHit(ray.ret.items[k])

\* both filters asked for, a hit kept, a hit dropped by the callback alone
C15_Witness ==
    /\ ray.op = "raycastAll" /\ ray.allHits
    /\ ray.options.filterTags /\ ray.options.filterCallback
    /\ Len(ray.ret.items) = 1
    /\ \E i \in 1..Len(ray.hits) : ray.hits[i].entity = 2
    /\ \E i \in 1..Len(ray.hits) : ray.hits[i].entity = NoEntity

PlainAll == RaycastAll(ray.hits, ray.options, ray.allHits).items

\* C17: without filters raycastFirst returns null iff raycastAll returns an empty array, and
\* otherwise a result whose entity and hitFraction are those of a result of raycastAll of
\* the least hitFraction
C17_FirstAgreesWithAll ==
    (ray.op = "raycastFirst" /\ ~HasFilter(ray.options) /\ ray.allHits) =>
        /\ ray.ret.kind = "null" <=> PlainAll = << >>
        /\ ray.ret.kind = "result" =>
              /\ ray.ret.items[1].entity # NoEntity
              /\ \E k \in 1..Len(PlainAll) :
                    /\ PlainAll[k].entity = ray.ret.items[1].entity
                    /\ PlainAll[k].hitFraction = ray.ret.items[1].hitFraction
                    /\ \A l \in 1..Len(PlainAll) :
                          PlainAll[k].hitFraction <= PlainAll[l].hitFraction

\* C18: without Ammo.AllHitsRayResultCallback raycastAll, and raycastFirst when it calls
\* raycastAll, end in a thrown error and return neither an array nor null
C18_MissingAllHitsFails ==
    (~ray.allHits /\ (ray.op = "raycastAll" \/ (ray.op = "raycastFirst" /\ HasFilter(ray.options)))) =>
        /\ ray.ret.kind = "error"
        /\ ray.ret.error = "TypeError"

C18_Witness ==
    /\ ~ray.allHits /\ ray.op = "raycastFirst" /\ HasFilter(ray.options)
    /\ ray.ret.kind = "error" /\ ray.hits = << >>


VectorFields == {"localPointA", "localPointB", "pointA", "pointB", "normal"}

\* the record rec with every vector field replaced by the value of its object
Deref(rec, heap) == [f \in DOMAIN rec |-> IF f \in VectorFields THEN heap[rec[f]] ELSE rec[f]]

\* C20: new SingleContactResult() has a and b null, impulse 0 and five zero vectors that are
\* five different objects, none of which existed before; new SingleContactResult(a, b, cp)
\* holds a, b, cp.impulse and cp's own localPoint, localPointOther, point, pointOther and
\* normal objects as localPointA, localPointB, pointA, pointB and normal
C20_SingleContactResultConstructor ==
    /\ (made.op = "SingleContactResult" /\ made.n = 0) =>
          /\ made.err = "none"
          /\ made.rec.a = NoEntity /\ made.rec.b = NoEntity /\ made.rec.impulse = 0
          /\ \A f \in VectorFields :
                /\ made.rec[f] \in (made.before + 1)..Len(made.heap)
                /\ made.heap[made.rec[f]] = 0
          /\ \A f \in VectorFields, g \in VectorFields : f # g => made.rec[f] # made.rec[g]
          /\ Deref(made.rec, made.heap) = SingleContactResultDefault
    /\ (made.op = "SingleContactResult" /\ made.n = 3) =>
          /\ made.err = "none"
          /\ made.rec.a = made.a /\ made.rec.b = made.b
          /\ made.rec.impulse = made.cp.impulse
          /\ made.rec.localPointA = made.cp.localPoint
          /\ made.rec.localPointB = made.cp.localPointOther
          /\ made.rec.pointA = made.cp.point
          /\ made.rec.pointB = made.cp.pointOther
          /\ made.rec.normal = made.cp.normal
          /\ Len(made.heap) = made.before

\* a second record made with no argument, after one made from a contact point
C20_Witness ==
    /\ made.op = "SingleContactResult" /\ made.n = 0 /\ made.before > Len(BaseHeap)
    /\ made.cp.impulse = 7 /\ made.cp.localPoint # made.cp.localPointOther


\* C21: no others list of the persistent map holds the same entity twice, whatever
\* _storeCollision and _cleanOldCollisions calls were made
C21_NoDuplicateOthers ==
    \A i \in 1..Len(collisions) :
        \A j, k \in 1..Len(collisions[i].others) :
            collisions[i].others[j] = collisions[i].others[k] => j = k

\* a call for a pair already listed has left a list of two entities as it was
C21_Witness ==
    /\ lastOp = "store"
    /\ \E i \in 1..Len(storeCalls) :
          /\ ~storeCalls[i].ret
          /\ Len(OthersOf(collisions, storeCalls[i].entity)) = 2
          /\ <<storeCalls[i].entity, storeCalls[i].other>> \in prev.pairs

\* the owners that have a pair in the set of pairs prs
OwnersOf(prs) == {pr[1] : pr \in prs}

\* C22: after every _storeCollision call and every _cleanOldCollisions pass no record of
\* the persistent map has an empty others list: a record made by _storeCollision holds
\* the one entity stored, and a record whose last entity is removed is deleted by the
\* pass that removes it
C22_NoEmptyRecord ==
    /\ \A i \in 1..Len(collisions) : collisions[i].others # << >>
    /\ lastOp = "store" =>
          \A i \in 1..Len(collisions) :
              collisions[i].guid \notin OwnersOf(prev.pairs) =>
                  collisions[i].others = <<storeCalls[1].other>>
    /\ lastOp = "clean" =>
          {collisions[i].guid : i \in 1..Len(collisions)}
              = OwnersOf(prev.pairs \ {PairOfCall(removals[i]) : i \in 1..Len(removals)})

\* a pass has removed the last entity of one record, which is gone, and kept another
C22_Witness ==
    /\ lastOp = "clean"
    /\ \E i \in 1..Len(removals) : ~HasKey(collisions, removals[i].entity)
    /\ collisions # << >>


\* the entities the _storeCollision calls of the last pass stored under owner e, in order
StoredUnder(e) ==
    [i \in 1..Len(SelectSeq(storeCalls, LAMBDA c : c.entity = e)) |->
        SelectSeq(storeCalls, LAMBDA c : c.entity = e)[i].other]

\* C23: the transient map is rebuilt in every detection pass: when the pass ends (the
\* cleaning pass has read it and left it alone) it holds, owner by owner and in call
\* order, exactly the entities passed to _storeCollision during this pass, and nothing
\* an earlier pass recorded
C23_TransientRebuilt ==
    lastOp = "pass" =>
        /\ {frameCollisions[i].guid : i \in 1..Len(frameCollisions)}
              = {storeCalls[i].entity : i \in 1..Len(storeCalls)}
        /\ \A e \in Entities : OthersOf(frameCollisions, e) = StoredUnder(e)

\* the pass before stored pairs; this one stored none, its transient map is empty and
\* the cleaning pass has removed the pairs on that ground
C23_Witness ==
    /\ lastOp = "pass"
    /\ prev.pairs # {} /\ prev.contact # {}
    /\ storeCalls = << >> /\ frameCollisions = << >>
    /\ removals # << >>


\* the unordered pairs whose manifolds of the last pass all have zero contact points
EmptyPairs == ManifoldPairs(manifolds) \ ContactPairs(manifolds)

\* C24: a manifold that is present with zero contact points produces no contact,
\* collisionstart or triggerenter event and no _storeCollision call, so its pair is not in
\* the transient map; an exit event fired for its pair in that pass comes from the
\* cleaning pass removing a pair that an earlier pass recorded and that the transient map
\* does not list, as for a pair without manifold
C24_EmptyManifoldIsSilent ==
    lastOp = "pass" =>
        \A pr \in EmptyPairs :
            /\ \A i \in 1..Len(storeCalls) : {storeCalls[i].entity, storeCalls[i].other} # pr
            /\ \A e, o \in pr : <<e, o>> \notin PairsOf(frameCollisions)
            /\ \A i \in 1..Len(events) :
                  {events[i].a, events[i].b} = pr =>
                      /\ events[i].name \in ExitNames
                      /\ \E k \in 1..Len(removals) :
                            /\ {removals[k].entity, removals[k].other} = pr
                            /\ PairOfCall(removals[k]) \in prev.pairs

\* a pair in contact in the pass before has an empty manifold in this one and gets its
\* exit event from the cleaning pass
C24_Witness ==
    /\ lastOp = "pass"
    /\ \E pr \in EmptyPairs : pr \in prev.contact /\ ExitEvents(pr) # {}


\* the positions in the last pass's events of the triggerenter events
TriggerEnters == {i \in 1..Len(events) : events[i].name = "triggerenter"}

\* a _storeCollision call of the last pass for the two entities of event i returned true
FreshlyStored(i) ==
    \E k \in 1..Len(storeCalls) :
        /\ storeCalls[k].ret
        /\ {storeCalls[k].entity, storeCalls[k].other} = {events[i].a, events[i].b}

\* C25 as stated: every triggerenter follows a fresh insert for its pair, and none is
\* fired on a component of an entity whose opposite body is a no-response body
C25_EnterNeverTowardsNoResponse ==
    lastOp = "pass" =>
        \A i \in TriggerEnters : FreshlyStored(i) /\ ~ents[events[i].b].trigger

\* C25, amended: every triggerenter follows a fresh insert for its pair in the pass; one
\* fired on a collision component is fired only when the opposite body is not a
\* no-response body, and one fired on a rigidbody component is fired whatever the
\* opposite body's flag is
C25_EnterOnlyWhenFresh ==
    lastOp = "pass" =>
        \A i \in TriggerEnters :
            /\ FreshlyStored(i)
            /\ events[i].comp = "collision" => ~ents[events[i].b].trigger
            /\ events[i].comp \in {"collision", "rigidbody"}

\* one pass fires triggerenter on the volume's collision component and on the rigidbody
\* of the body inside it, whose opposite is the no-response volume, while the body's
\* listening collision component gets none
C25_Witness ==
    /\ lastOp = "pass"
    /\ \E i, j \in TriggerEnters :
          /\ events[i].comp = "collision" /\ ~ents[events[i].b].trigger
          /\ events[j].comp = "rigidbody" /\ ents[events[j].b].trigger
          /\ "triggerenter" \in listeners[events[j].a].collision
          /\ \A k \in TriggerEnters : events[k].a = events[j].a => events[k].comp = "rigidbody"


\* the ordered pairs <<e, o>> of the trigger manifolds with contact of the last pass:
\* e and o are the two entities of one manifold and one of them is a trigger volume
TriggerSides ==
    {<<e, o>> \in Entities \X Entities :
        /\ {e, o} \in ContactPairs(manifolds) /\ e # o
        /\ ents[e].trigger \/ ents[o].trigger}

\* _storeCollision(owner, other) was called in the last pass and the pair is in both maps
StoredUnderOwner(owner, other) ==
    /\ \E k \in 1..Len(storeCalls) :
          storeCalls[k].entity = owner /\ storeCalls[k].other = other
    /\ <<owner, other>> \in PairsOf(collisions)
    /\ <<owner, other>> \in PairsOf(frameCollisions)

\* a component of e carries a triggerenter or triggerleave listener
ListensForTrigger(e, comp) ==
    ents[e][comp] /\ (listeners[e][comp] \cap {"triggerenter", "triggerleave"} # {})

\* C26 as stated: each entity of a trigger manifold that listens on either component is
\* stored as owner of the pair
C26_ListenerIsOwner ==
    lastOp = "pass" =>
        \A sd \in TriggerSides :
            (ListensForTrigger(sd[1], "collision") \/ ListensForTrigger(sd[1], "rigidbody"))
                => StoredUnderOwner(sd[1], sd[2])

\* C26, amended: an entity of a trigger manifold that listens on its collision component
\* is stored as owner of the pair; for one that listens on its rigidbody component the
\* pair is stored under the opposite entity as owner, unless a _storeCollision call made
\* for the pair in this pass had already returned true
C26_StoredPerListener ==
    lastOp = "pass" =>
        \A sd \in TriggerSides :
            /\ ListensForTrigger(sd[1], "collision") => StoredUnderOwner(sd[1], sd[2])
            /\ ListensForTrigger(sd[1], "rigidbody") =>
                  \/ StoredUnderOwner(sd[2], sd[1])
                  \/ \E k \in 1..Len(storeCalls) :
                        /\ storeCalls[k].ret
                        /\ {storeCalls[k].entity, storeCalls[k].other} = {sd[1], sd[2]}

\* a body that listens on its rigidbody alone overlaps a volume for the second pass in
\* a row: the pair is stored under the volume and the body owns no record
C26_Witness ==
    /\ lastOp = "pass"
    /\ \E sd \in TriggerSides :
          /\ ListensForTrigger(sd[1], "rigidbody") /\ ~ListensForTrigger(sd[1], "collision")
          /\ StoredUnderOwner(sd[2], sd[1])
          /\ ~HasKey(collisions, sd[1])
          /\ \A k \in 1..Len(storeCalls) : ~storeCalls[k].ret


\* a component of e carries a contact, collisionstart or collisionend listener
ListensForContact(e) ==
    \E comp \in {"collision", "rigidbody"} :
        ents[e][comp] /\ (listeners[e][comp] \cap {"contact", "collisionstart", "collisionend"} # {})

\* the positions in the last pass's manifolds of the physical manifolds with contact
\* that no listener asks for
UnheardManifolds ==
    {i \in 1..Len(manifolds) :
        /\ manifolds[i].e0 # NoEntity /\ manifolds[i].e1 # NoEntity
        /\ Len(manifolds[i].pts) > 0
        /\ ~ents[manifolds[i].e0].trigger /\ ~ents[manifolds[i].e1].trigger
        /\ ~globalContact
        /\ ~ListensForContact(manifolds[i].e0) /\ ~ListensForContact(manifolds[i].e1)}

\* the <<manifold, contact point>> positions of the last pass, the positions in
\* UnheardManifolds left out
HeardPoints ==
    UNION {{<<i, j>> : j \in 1..Len(manifolds[i].pts)} :
              i \in {k \in 1..Len(manifolds) :
                        /\ k \notin UnheardManifolds
                        /\ manifolds[k].e0 # NoEntity /\ manifolds[k].e1 # NoEntity}}

\* the <<manifold, entity>> positions of the last pass whose entity has a local contact
\* listener, the positions in UnheardManifolds left out
HeardSides ==
    {<<i, e>> \in (1..Len(manifolds)) \X Entities :
        /\ i \notin UnheardManifolds
        /\ e \in {manifolds[i].e0, manifolds[i].e1}
        /\ ListensForContact(e)}

\* C27: a physical manifold that neither a global nor a local contact listener asks for
\* is skipped: none of the pass's pooled records is allocated for it (the contact points
\* handed out are those of the other manifolds), no event is fired and no
\* _storeCollision call is made for its pair, and neither map lists the pair
C27_UnheardManifoldSkipped ==
    lastOp = "pass" =>
        /\ Cardinality(HandedOf({"point"})) <= Cardinality(HeardPoints)
        /\ Cardinality(HandedOf({"reverse"})) <= Cardinality(HeardPoints)
        /\ Cardinality(HandedOf({"result"})) <= Cardinality(HeardSides)
        /\ \A i \in UnheardManifolds :
              /\ \A k \in 1..Len(events) :
                    {events[k].a, events[k].b} # {manifolds[i].e0, manifolds[i].e1}
              /\ \A k \in 1..Len(storeCalls) :
                    {storeCalls[k].entity, storeCalls[k].other}
                        # {manifolds[i].e0, manifolds[i].e1}
              /\ \A k \in 1..Len(handed) :
                    handed[k].kind = "single" => {handed[k].from.a, handed[k].from.b}
                                                    # {manifolds[i].e0, manifolds[i].e1}
              /\ \A e, o \in {manifolds[i].e0, manifolds[i].e1} :
                    /\ <<e, o>> \notin PairsOf(collisions)
                    /\ <<e, o>> \notin PairsOf(frameCollisions)

\* a pass over two manifolds with two contact points each that nobody listens for has
\* handed out no record, fired nothing and stored nothing
C27_Witness ==
    /\ lastOp = "pass"
    /\ Cardinality(UnheardManifolds) = 2
    /\ \A i \in UnheardManifolds : Len(manifolds[i].pts) = 2
    /\ handed = << >> /\ events = << >> /\ storeCalls = << >>
    /\ collisions = << >> /\ frameCollisions = << >>
    /\ contactPointPool.count = 0


\* the readings of backend contact point bt as the forward-oriented record holds them
ForwardOf(bt) ==
    [localPoint |-> bt.localPointA, localPointOther |-> bt.localPointB,
     point |-> bt.positionWorldOnA, pointOther |-> bt.positionWorldOnB,
     normal |-> bt.normalWorldOnB, impulse |-> bt.appliedImpulse]

\* the global contact events a pass over the manifolds ms owes, manifold by manifold and
\* contact point by contact point
RECURSIVE GlobalContactsOf(_)
GlobalContactsOf(ms) ==
    IF ms = << >> THEN << >>
    ELSE (IF Head(ms).e0 = NoEntity \/ Head(ms).e1 = NoEntity
             \/ ents[Head(ms).e0].trigger \/ ents[Head(ms).e1].trigger
          THEN << >>
          ELSE [j \in 1..Len(Head(ms).pts) |->
                   [a |-> Head(ms).e0, b |-> Head(ms).e1,
                    pts |-> <<ForwardOf(BtPoint(Head(ms).pts[j]))>>]])
         \o GlobalContactsOf(Tail(ms))

\* the global contact events of the last pass, in firing order
GlobalContacts ==
    [i \in 1..Len(SelectSeq(events, LAMBDA ev : ev.comp = "system")) |->
        [a |-> SelectSeq(events, LAMBDA ev : ev.comp = "system")[i].a,
         b |-> SelectSeq(events, LAMBDA ev : ev.comp = "system")[i].b,
         pts |-> SelectSeq(events, LAMBDA ev : ev.comp = "system")[i].pts]]

\* C28: with a global contact listener a physical manifold with n contact points fires
\* exactly n global contact events, one per contact point and in their order, each with
\* entity A as a, entity B as b and the forward-oriented readings of the point, whether
\* or not a local listener exists; without a global listener none is fired; a pair whose
\* entities have no local listener gets no _storeCollision call
C28_GlobalContactPerPoint ==
    lastOp = "pass" =>
        /\ GlobalContacts = (IF globalContact THEN GlobalContactsOf(manifolds) ELSE << >>)
        /\ \A k \in 1..Len(storeCalls) : ListensForContact(storeCalls[k].entity)

\* a manifold with two contact points between bodies without local listeners has fired
\* two global contact events and stored nothing
C28_Witness ==
    /\ lastOp = "pass" /\ globalContact
    /\ Len(GlobalContacts) = 2
    /\ GlobalContacts[1].pts # GlobalContacts[2].pts
    /\ \A e \in Entities : ~ListensForContact(e)
    /\ storeCalls = << >> /\ frameCollisions = << >>


\* the mirror of a forward-oriented contact point
MirrorOf(f) ==
    [localPoint |-> f.localPointOther, localPointOther |-> f.localPoint,
     point |-> f.pointOther, pointOther |-> f.point,
     normal |-> f.normal, impulse |-> f.impulse]

\* the positions in the last pass's events of the contact events fired on a component
LocalContacts == {i \in 1..Len(events) : events[i].name = "contact" /\ events[i].comp # "system"}

\* the manifold of the last pass whose entities and contact points event i reports
ManifoldOf(i) ==
    {k \in 1..Len(manifolds) :
        /\ {manifolds[k].e0, manifolds[k].e1} = {events[i].a, events[i].b}
        /\ Len(manifolds[k].pts) = Len(events[i].pts)}

Handlers ==
    {[on |-> e, comp |-> c, name |-> n, entity |-> v, removes |-> r] :
        e \in Entities, c \in {"collision", "rigidbody"}, n \in EventNames,
        v \in Entities, r \in {"collision", "rigidbody"}}

\* a trigger volume and a rigid body, or two rigid bodies, whose components listen; one
\* of the listeners removes a component of a rigid body when it is called
InitHandlers ==
    /\ InitMaps
    /\ scratch = OneProvider
    /\ hasTickCallback = TRUE
    /\ tickRegistered = InitRegistersTick(hasTickCallback)
    /\ system = LibraryLoaded
    /\ gravity = DefaultGravity
    /\ world = NewWorld
    /\ InitQueries
    /\ ents \in {f \in [Entities -> {TriggerEntity, BodyEntity}] : ~f[2].trigger}
    /\ listeners = [e \in Entities |->
          IF ents[e].trigger THEN [collision |-> ListenersB, rigidbody |-> {}]
          ELSE [collision |-> ListenersB, rigidbody |-> ListenersA \cup {"collisionend"}]]
    /\ globalContact = FALSE
    /\ handler \in {h \in Handlers :
                        /\ h.name \in listeners[h.on][h.comp]
                        /\ ~ents[h.entity].trigger}

\* the tick callback on the manifolds of the bodies that still exist: an entity that has
\* lost a component is left out of the world
HandlerPass ==
    /\ \E ms \in ManifoldLists :
          /\ \A i \in 1..Len(ms) :
                \A e \in {ms[i].e0, ms[i].e1} \ {NoEntity} :
                    ents[e] \in {TriggerEntity, BodyEntity}
          /\ DetectionPass(ms)
    /\ UNCHANGED <<listeners, globalContact, handler, scratch, loopVars, sideVars>>

SpecHandlers == InitHandlers /\ [][HandlerPass]_vars

\* C30: a handler called during a detection pass may remove the collision or the
\* rigidbody component of an entity of the pair being processed; the rest of the pass
\* raises nothing and fires no event on a component that is no longer on its entity
C30_HandlerMutationTolerated ==
    lastOp = "pass" =>
        /\ error = "none"
        /\ \A i \in 1..Len(events) : events[i].present


\* C31: while a trigger/body pair stays overlapping, a pass that follows a pass in which
\* the pair already had a manifold with contact fires no triggerenter for the pair, on
\* any component and with every listener configuration
C31_NoRepeatedTriggerEnter ==
    lastOp = "pass" =>
        \A i \in TriggerEnters : {events[i].a, events[i].b} \notin prev.contact


\* C32: at the end of every detection pass the pairs of the persistent map are exactly
\* the distinct pairs of the pass's transient map: a pair survives the pass if and only
\* if _storeCollision was called for it during the pass
C32_PersistentEqualsTransient ==
    lastOp = "pass" =>
        /\ PairsOf(collisions) = PairsOf(frameCollisions)
        /\ PairsOf(collisions) = {PairOfCall(storeCalls[i]) : i \in 1..Len(storeCalls)}

\* the pairs an earlier pass recorded were stored again, none of them anew, and are
\* the pairs of both maps
C32_Witness ==
    /\ lastOp = "pass"
    /\ prev.pairs # {} /\ prev.pairs = PairsOf(collisions)
    /\ storeCalls # << >>
    /\ \A i \in 1..Len(storeCalls) : ~storeCalls[i].ret
    /\ Cardinality(PairsOf(frameCollisions)) < EntryCount(frameCollisions)


\* ------------------------------------------------------------------ passes over three entities
\* the manifold lists of one pass over two rigid bodies and a trigger volume, every
\* manifold with MaxContacts contact points
OrderLists ==
    UNION {[1..len -> {m \in {[e0 |-> a, e1 |-> b, pts |-> [j \in 1..MaxContacts |-> j]] :
                                  a \in MapIds, b \in MapIds} : m.e0 < m.e1}] :
           len \in 0..MaxManifolds}

\* two rigid bodies and a trigger volume, all listening, and a global contact listener
InitOrder ==
    /\ InitProvider /\ hasTickCallback
    /\ ents = [e \in MapIds |-> IF e = MapEntities THEN TriggerEntity ELSE BodyEntity]
    /\ listeners = [e \in MapIds |->
          IF ents[e].trigger THEN [collision |-> ListenersA, rigidbody |-> {}]
          ELSE [collision |-> ListenersB, rigidbody |-> ListenersA]]
    /\ globalContact = TRUE

OrderPass ==
    /\ \E ms \in OrderLists : DetectionPass(ms)
    /\ UNCHANGED <<listeners, globalContact, handler, scratch, loopVars, sideVars>>

SpecOrder == InitOrder /\ [][OrderPass]_vars

\* one event a manifold may fire: on component comp of entity a, or on the system;
\* optional when a pass may leave it out
Item(comp, name, a, optional) == [comp |-> comp, name |-> name, a |-> a, optional |-> optional]

\* the local events of entity e in the order claimed: on its collision component, then
\* on its rigidbody, each time contact and then, for a new pair, collisionstart
LocalItems(e) ==
    IF ListensForContact(e)
    THEN (IF ents[e].collision
          THEN <<Item("collision", "contact", e, FALSE), Item("collision", "collisionstart", e, TRUE)>>
          ELSE << >>)
         \o (IF ents[e].rigidbody
             THEN <<Item("rigidbody", "contact", e, FALSE), Item("rigidbody", "collisionstart", e, TRUE)>>
             ELSE << >>)
    ELSE << >>

\* the enter-side events of manifold m in the order claimed: the global contact events,
\* one per contact point, then entity A's local events, then entity B's; for a trigger
\* pair the triggerenter events
ItemsOf(m) ==
    IF m.e0 = NoEntity \/ m.e1 = NoEntity \/ Len(m.pts) = 0 THEN << >>
    ELSE IF ents[m.e0].trigger \/ ents[m.e1].trigger
    THEN <<Item("collision", "triggerenter", m.e0, TRUE), Item("collision", "triggerenter", m.e1, TRUE),
           Item("rigidbody", "triggerenter", m.e0, TRUE), Item("rigidbody", "triggerenter", m.e1, TRUE)>>
    ELSE (IF globalContact THEN [j \in 1..Len(m.pts) |-> Item("system", "contact", m.e0, FALSE)]
          ELSE << >>)
         \o LocalItems(m.e0) \o LocalItems(m.e1)

RECURSIVE ItemsOfAll(_)
ItemsOfAll(ms) == IF ms = << >> THEN << >> ELSE ItemsOf(Head(ms)) \o ItemsOfAll(Tail(ms))

\* what is left of the events evs once the items have been read off their front, in
\* order; an event that is not the one due is left in front for good
Mismatch == <<[comp |-> "none", name |-> "mismatch", a |-> NoEntity]>>

RECURSIVE ReadOff(_, _)
ReadOff(evs, items) ==
    IF items = << >> THEN evs
    ELSE IF evs # << >> /\ Head(evs).comp = Head(items).comp /\ Head(evs).name = Head(items).name
            /\ Head(evs).a = Head(items).a
    THEN ReadOff(Tail(evs), Tail(items))
    ELSE IF Head(items).optional THEN ReadOff(evs, Tail(items))
    ELSE Mismatch

\* C33: the events of a detection pass are, manifold after manifold, the global contact
\* events of the manifold, then entity A's local events, then entity B's, contact before
\* collisionstart on each component (triggerenter events for a trigger pair), and only
\* after the enter-side events of the last manifold the exit events of the pass
C33_EnterBeforeExit ==
    lastOp = "pass" =>
        \A i \in 1..Len(ReadOff(events, ItemsOfAll(manifolds))) :
            ReadOff(events, ItemsOfAll(manifolds))[i].name \in ExitNames


\* a pass over one manifold with two contact points between two listening bodies, after
\* a pass that recorded another pair: two global events, then contact and collisionstart
\* on both components of A, then of B, and then the exit events of the other pair
C33_Witness ==
    /\ lastOp = "pass"
    /\ Len(manifolds) = 1 /\ Len(events) > 10
    /\ events[2].comp = "system" /\ events[3].comp # "system"
    /\ events[6].name = "collisionstart" /\ events[6].a = manifolds[1].e0
    /\ events[7].name = "contact" /\ events[7].a = manifolds[1].e1
    /\ events[11].name \in ExitNames


\* ------------------------------------------------------------------ providers created and destroyed
\* no provider yet; the segment of the raycasts crosses at most one body
InitScratch ==
    /\ InitMaps
    /\ handler = NoHandler
    /\ scratch = NoProvider
    /\ ents = [e \in Entities |-> BodyEntity]
    /\ listeners = [e \in Entities |-> [collision |-> {}, rigidbody |-> {}]]
    /\ globalContact = FALSE
    /\ hasTickCallback = TRUE
    /\ tickRegistered = TRUE
    /\ system = LibraryLoaded
    /\ gravity = DefaultGravity
    /\ world = NewWorld
    /\ ray \in [hits : {h \in RayScenes : Len(h) <= 1}, options : RayOptions, allHits : {TRUE},
                 op : {"none"}, ret : {Returned("none", << >>)}]
    /\ made = [op |-> "none"]

\* AmmoProvider.createInstance(system), Ammo defined
CreateProvider ==
    /\ scratch.created < MaxProviders
    /\ scratch' = CreatedProvider(scratch)
    /\ error' = "none"
    /\ lastOp' = "createInstance"
    /\ UNCHANGED <<collisions, frameCollisions, events, storeCalls, removals, open, poolVars,
                   ents, listeners, globalContact, handler, passVars, loopVars, sideVars>>

\* destroy() on a live provider, lines 68-93: its world is destroyed, then the six
\* scratch objects are destroyed and the six variables set to null.  When they are null
\* already, Ammo.destroy(null) at line 75 raises and the call ends there.
DestroyProvider ==
    /\ \E p \in scratch.live :
          scratch' = [scratch EXCEPT !.live = @ \ {p},
                                     !.objects = IF @ = "live" THEN "null" ELSE @]
    /\ error' = IF scratch.objects = "live" THEN "none" ELSE "TypeError"
    /\ lastOp' = "destroy"
    /\ UNCHANGED <<collisions, frameCollisions, events, storeCalls, removals, open, poolVars,
                   ents, listeners, globalContact, handler, passVars, loopVars, sideVars>>

\* raycastFirst on a live provider: ammoRayStart.setValue (line 386, or 426 through
\* raycastAll) is a TypeError when the scratch objects are null
ScratchRaycast ==
    /\ scratch.live # {}
    /\ IF scratch.objects = "live"
       THEN \E ret \in RaycastFirst(ray.hits, ray.options, ray.allHits) :
                ray' = [ray EXCEPT !.op = "raycastFirst", !.ret = ret,
                                   !.options = IF HasFilter(@) THEN ForceSort(@) ELSE @]
       ELSE ray' = [ray EXCEPT !.op = "raycastFirst", !.ret = Thrown("TypeError"),
                               !.options = IF HasFilter(@) THEN ForceSort(@) ELSE @]
    /\ lastOp' = "raycastFirst"
    /\ UNCHANGED <<bookVars, poolVars, entVars, passVars, loopVars, system, gravity, world, made>>

ScratchNext == CreateProvider \/ DestroyProvider \/ ScratchRaycast

SpecScratch == InitScratch /\ [][ScratchNext]_vars

\* C34: after any sequence of createInstance and destroy calls every live provider has
\* the module-level scratch objects: they are there while a provider is live, and a
\* raycast on a live provider never fails on a destroyed or null scratch object
C34_LiveProviderHasScratch ==
    /\ scratch.live # {} => scratch.objects = "live"
    /\ lastOp = "raycastFirst" => ray.ret.kind # "error"


\* C35: raycastFirst and raycastAll leave the caller's options object as it was passed
\* (options.sort included) and do not change the persistent map, the transient map or
\* the pools
C35_RaycastsReadOnly ==
    [][lastOp' \in {"raycastFirst", "raycastAll"} =>
          /\ ray'.options = ray.options
          /\ collisions' = collisions /\ frameCollisions' = frameCollisions
          /\ contactPointPool' = contactPointPool
          /\ contactResultPool' = contactResultPool
          /\ singleContactResultPool' = singleContactResultPool]_vars

====
